---- MODULE Spec2Model ----
(***************************************************************************)
(* Model of the codebase analyzer's indexing pipeline: the working tree    *)
(* and git history that index_codebase reads, the scan planner of          *)
(* src/main.py, the per-file replace protocol, and the SQLite graph store  *)
(* of src/db.py (symbols, relationships, symbol_embeddings).               *)
(***************************************************************************)
EXTENDS Integers, Sequences, FiniteSets, TLC

(***************************************************************************)
(* Bounds of the model.                                                    *)
(***************************************************************************)
MaxCommits == 2
MaxEdits == 1
MaxSymbolId == 6
MaxRelationshipId == 6

\* Python's None (for strings), the empty string get_file_hash returns on
\* failure, and None in place of a commit hash.
None == "None"
NoHash == 0
NoCommit == 0

ProjectIds == {"p1", "p2"}
Files == {"a.py", "m.elm", "r.txt", "k.kt"}

(***************************************************************************)
(* File contents.  A content is identified by a number that also stands    *)
(* for its SHA-256 digest (distinct contents, distinct digests); 0 is "no  *)
(* such file".  A line carries its text and what the line patterns of the  *)
(* extractors find in it: the declaration it matches, the declared name,   *)
(* the parent named in an inheritance clause and the tokens matched by     *)
(* (\w+)\s*\( in order.  A capture is what the grammar engine returns for  *)
(* the content: the capture name, the text of the node reduced to its      *)
(* first word, and the node's line span.                                   *)
(***************************************************************************)
Line(text, decl, name, parent, tokens) ==
    [text |-> text, decl |-> decl, name |-> name, parent |-> parent, tokens |-> tokens]

Capture(capture_name, word, start, end, text) ==
    [capture_name |-> capture_name, word |-> word, start |-> start, end |-> end, text |-> text]

NoContent == [lines |-> << >>, captures |-> << >>]

Content(c) ==
    CASE c = 1 -> [lines |-> << Line("def foo(): pass", "def", "foo", None, <<"foo">>),
                                Line("def bar(): foo()", "def", "bar", None, <<"bar", "foo">>) >>,
                   captures |-> << Capture("name", "foo", 1, 1, "foo"),
                                   Capture("definition.function", "foo", 1, 1, "def foo(): pass") >>]
      [] c = 2 -> [lines |-> << Line("def bar(): pass", "def", "bar", None, <<"bar">>) >>,
                   captures |-> << >>]
      [] c = 3 -> [lines |-> << Line("foo x = bar (x)", "none", None, None, <<"bar">>) >>,
                   captures |-> << Capture("name", "foo", 1, 1, "foo"),
                                   Capture("definition.function", "foo", 1, 1, "foo x = bar (x)") >>]
      [] c = 4 -> [lines |-> << Line("-- nothing declared", "none", None, None, << >>) >>,
                   captures |-> << >>]
      [] c = 6 -> [lines |-> << Line("fun main() {}", "fun", "main", None, <<"main">>) >>,
                   captures |-> << >>]
      [] c = 5 -> [lines |-> << Line("def foobar(): pass", "def", "foobar", None, <<"foobar">>),
                                Line("def qux(): foo()", "def", "qux", None, <<"qux", "foo">>) >>,
                   captures |-> << >>]
      [] c = 7 -> [lines |-> << Line("def foo(): bar()", "def", "foo", None, <<"foo", "bar">>),
                                Line("class foo: pass", "class", "foo", None, << >>),
                                Line("foo()", "none", None, None, <<"foo">>) >>,
                   captures |-> << >>]
      [] c = 8 -> [lines |-> << Line("module App exposing (foo)", "none", None, None, <<"exposing">>),
                                Line("foo x = bar (x)", "none", None, None, <<"bar">>) >>,
                   captures |-> << Capture("definition.module", "App", 1, 2, "module App exposing (foo)"),
                                   Capture("definition.function", "foo", 2, 2, "foo x = bar (x)") >>]
      [] OTHER -> NoContent

\* The contents an edit may give each file; r.txt is never edited.
FileContents(f) ==
    CASE f = "a.py"  -> {1, 2, 5, 7}
      [] f = "m.elm" -> {3, 4, 8}
      [] f = "k.kt"  -> {6}
      [] OTHER -> {}

Trees == [Files -> 0..8]
EmptyTree == [f \in Files |-> 0]

\* the tree the model starts from: a Python file and a file of no recognized
\* language
InitialTree == [f \in Files |-> IF f = "a.py" THEN 1 ELSE IF f = "r.txt" THEN 2 ELSE 0]

(***************************************************************************)
(* Names as character codes, for LIKE matching and ORDER BY name.          *)
(***************************************************************************)
NameChars(n) ==
    CASE n = "foo" -> <<102, 111, 111>>
      [] n = "bar" -> <<98, 97, 114>>
      [] n = "foobar" -> <<102, 111, 111, 98, 97, 114>>
      [] n = "qux" -> <<113, 117, 120>>
      [] n = "main" -> <<109, 97, 105, 110>>
      [] n = "App" -> <<65, 112, 112>>
      [] n = "exposing" -> <<101, 120, 112, 111, 115, 105, 110, 103>>
      [] OTHER -> << >>

PathChars(f) ==
    CASE f = "a.py"  -> <<97>>
      [] f = "m.elm" -> <<109>>
      [] f = "r.txt" -> <<114>>
      [] f = "k.kt"  -> <<107>>
      [] OTHER -> << >>

\* a is a contiguous substring of b
IsSubstring(a, b) ==
    \E i \in 0..(Len(b) - Len(a)) : \A j \in 1..Len(a) : a[j] = b[i + j]

\* a sorts strictly before b under BINARY collation
RECURSIVE LexLess(_, _)
LexLess(a, b) ==
    IF a = << >> THEN b # << >>
    ELSE IF b = << >> THEN FALSE
    ELSE IF Head(a) # Head(b) THEN Head(a) < Head(b)
    ELSE LexLess(Tail(a), Tail(b))

VARIABLES
    fs,             \* working tree: file -> content (0 = absent)
    is_repo,        \* the tree is a (non-bare) git repository
    commits,        \* commit hash (index) -> committed tree
    head,           \* HEAD commit, 0 when the repository has no commit
    projects,       \* rows of the project table (prior scan commit and branch)
    symbols,        \* rows of table symbols
    relationships,  \* rows of table relationships
    embeddings,     \* rows of table symbol_embeddings
    edits,          \* number of edits made to the working tree
    result,         \* what the last operation returned
    running         \* index operations in flight: where each one stands

vars == <<fs, is_repo, commits, head, projects, symbols, relationships, embeddings, edits, result, running>>


(***************************************************************************)
(* Language registry.                                                      *)
(***************************************************************************)
FileExt(f) ==
    CASE f = "a.py"  -> ".py"
      [] f = "m.elm" -> ".elm"
      [] f = "r.txt" -> ".txt"
      [] f = "k.kt"  -> ".kt"

\* the rows of the extension table the modelled tree can hit
language_map(ext) ==
    CASE ext = ".py"  -> "python"
      [] ext = ".elm" -> "elm"
      [] ext = ".js"  -> "javascript"
      [] ext = ".kt"  -> "kotlin"
      [] OTHER -> None

detect_language(f) == language_map(FileExt(f))

\* languages with a language-specific parser instance
language_parsers == {"python", "javascript", "kotlin"}

_get_language_parser(language) == IF language \in language_parsers THEN language ELSE None

(***************************************************************************)
(* Grammar extraction adapter.                                             *)
(***************************************************************************)
TypeError == "TypeError"

GenericSymbolType(capture_name) ==
    CASE capture_name = "definition.function" -> "function"
      [] capture_name = "definition.class" -> "class"
      [] capture_name = "definition.module" -> "module"
      [] capture_name = "function" -> "function"
      [] capture_name = "class" -> "class"
      [] capture_name = "variable" -> "variable"
      [] capture_name = "name" -> "variable"
      [] OTHER -> "unknown"

\* BaseParser._get_symbol_type: the same table, 'unknown' for what is not in it
BaseParser_get_symbol_type(capture_name, language) == GenericSymbolType(capture_name)

\* PythonParser._get_symbol_type: None for what is not in its table
PythonParser_get_symbol_type(capture_name, language) ==
    IF GenericSymbolType(capture_name) = "unknown" THEN None ELSE GenericSymbolType(capture_name)

\* The language-specific _get_symbol_type takes (capture_name, language) but
\* is called with the capture name alone, which raises TypeError.
_get_symbol_type(capture_name, language) ==
    IF _get_language_parser(language) # None
    THEN TypeError
    ELSE GenericSymbolType(capture_name)

_extract_symbol_name(cap, language) == IF cap.word = "" THEN None ELSE cap.word

RawSymbol(name, symbol_type, line_start, line_end, code_snippet, language, file_path) ==
    [name |-> name, symbol_type |-> symbol_type, line_start |-> line_start,
     line_end |-> line_end, code_snippet |-> code_snippet, language |-> language,
     file_path |-> file_path]

\* <<symbol>>, or << >> (None) when the name is empty or mapping the type raised
_extract_symbol_info(cap, language, file_path) ==
    IF _extract_symbol_name(cap, language) = None THEN << >>
    ELSE IF _get_symbol_type(cap.capture_name, language) = TypeError THEN << >>
    ELSE << RawSymbol(_extract_symbol_name(cap, language),
                      _get_symbol_type(cap.capture_name, language),
                      cap.start, cap.end, cap.text, language, file_path) >>

\* _extract_symbol_info of a plain BaseParser, whose _get_symbol_type is the
\* base table; the dictionary is returned whatever the type is
BaseParser_extract_symbol_info(cap, language, file_path) ==
    IF _extract_symbol_name(cap, language) = None THEN << >>
    ELSE << RawSymbol(_extract_symbol_name(cap, language),
                      BaseParser_get_symbol_type(cap.capture_name, language),
                      cap.start, cap.end, cap.text, language, file_path) >>

RECURSIVE _extract_symbols_with_query(_, _, _)
_extract_symbols_with_query(captures, language, file_path) ==
    IF captures = << >> THEN << >>
    ELSE _extract_symbol_info(Head(captures), language, file_path)
         \o _extract_symbols_with_query(Tail(captures), language, file_path)

(***************************************************************************)
(* Fallback line-pattern extractor.                                        *)
(***************************************************************************)
RECURSIVE LinesMatching(_, _, _, _, _, _)
LinesMatching(lines, i, decl, symbol_type, language, file_path) ==
    IF i > Len(lines) THEN << >>
    ELSE (IF lines[i].decl = decl
          THEN << RawSymbol(lines[i].name, symbol_type, i, i, lines[i].text, language, file_path) >>
          ELSE << >>)
         \o LinesMatching(lines, i + 1, decl, symbol_type, language, file_path)

\* function definitions first, then class definitions
extract_symbols_regex(lines, file_path, language) ==
    LinesMatching(lines, 1, "def", "function", language, file_path)
    \o LinesMatching(lines, 1, "class", "class", language, file_path)

\* a key the dictionary of a symbol does not carry
MissingKey == "KeyError"

\* KotlinParser.extract_symbols_regex: its dictionaries carry name, type, line,
\* file and language, none of symbol_type, line_start, line_end, code_snippet
RECURSIVE KotlinParser_extract_symbols_regex(_, _, _, _)
KotlinParser_extract_symbols_regex(lines, i, file_path, language) ==
    IF i > Len(lines) THEN << >>
    ELSE (IF lines[i].decl = "fun"
          THEN << RawSymbol(lines[i].name, MissingKey, 0, 0, MissingKey, language, file_path) >>
          ELSE << >>)
         \o KotlinParser_extract_symbols_regex(lines, i + 1, file_path, language)

_extract_generic_symbols(lines, file_path, language) ==
    LinesMatching(lines, 1, "def", "function", language, file_path)
    \o LinesMatching(lines, 1, "class", "class", language, file_path)

_extract_symbols(content, language, file_path) ==
    LET symbols0 == _extract_symbols_with_query(content.captures, language, file_path)
    IN  IF symbols0 # << >> THEN symbols0
        ELSE IF _get_language_parser(language) = "kotlin"
             THEN KotlinParser_extract_symbols_regex(content.lines, 1, file_path, language)
        ELSE IF _get_language_parser(language) # None
             THEN extract_symbols_regex(content.lines, file_path, language)
             ELSE _extract_generic_symbols(content.lines, file_path, language)


(***************************************************************************)
(* Relationship inferencer.                                                *)
(***************************************************************************)
PythonSkipKeywords == {"if", "for", "while", "with", "def", "class", "import", "from", "return", "print"}
GenericSkipKeywords == {"if", "for", "while", "switch", "try", "catch", "return", "print", "console"}

RawRelationship(owner, type, target, line) ==
    [owner |-> owner, type |-> type, target |-> target, line |-> line]

\* the last such symbol in place of the first
FirstContaining_last(symbols_, i) ==
    LET holds == {k \in 1..Len(symbols_) :
                    symbols_[k].line_start <= i /\ i <= symbols_[k].line_end}
    IN  IF holds = {} THEN 0 ELSE CHOOSE k \in holds : \A m \in holds : m <= k

\* index of the first symbol, in extraction order, whose range holds line i; 0 if none
FirstContaining(symbols_, i) ==
    LET holds == {k \in 1..Len(symbols_) :
                    symbols_[k].line_start <= i /\ i <= symbols_[k].line_end}
    IN  IF holds = {} THEN 0 ELSE CHOOSE k \in holds : \A m \in holds : k <= m

RECURSIVE CallsOfTokens(_, _, _, _)
CallsOfTokens(tokens, i, symbols_, skip) ==
    IF tokens = << >> THEN << >>
    ELSE (IF Head(tokens) \notin skip /\ FirstContaining(symbols_, i) # 0
          THEN << RawRelationship(symbols_[FirstContaining(symbols_, i)].name,
                                  "calls", Head(tokens), i) >>
          ELSE << >>)
         \o CallsOfTokens(Tail(tokens), i, symbols_, skip)

RECURSIVE CallsOfLines(_, _, _, _)
CallsOfLines(lines, i, symbols_, skip) ==
    IF i > Len(lines) THEN << >>
    ELSE CallsOfTokens(lines[i].tokens, i, symbols_, skip)
         \o CallsOfLines(lines, i + 1, symbols_, skip)

RECURSIVE InheritsOfLines(_, _)
InheritsOfLines(lines, i) ==
    IF i > Len(lines) THEN << >>
    ELSE (IF lines[i].decl = "class" /\ lines[i].parent # None
          THEN << RawRelationship(lines[i].name, "inherits", lines[i].parent, i) >>
          ELSE << >>)
         \o InheritsOfLines(lines, i + 1)

\* PythonParser.extract_relationships: calls, then class inheritance
extract_relationships(lines, symbols_) ==
    CallsOfLines(lines, 1, symbols_, PythonSkipKeywords) \o InheritsOfLines(lines, 1)

_extract_generic_relationships_simple(lines, symbols_) ==
    CallsOfLines(lines, 1, symbols_, GenericSkipKeywords)

\* KotlinParser.extract_relationships keys its result by kind of relationship
\* (inheritance, usage, ...), so no entry is found under the name of a symbol
KotlinParser_extract_relationships(lines, symbols_) == << >>

_extract_relationships(lines, language, symbols_) ==
    IF _get_language_parser(language) = "kotlin"
    THEN KotlinParser_extract_relationships(lines, symbols_)
    ELSE IF _get_language_parser(language) # None
    THEN extract_relationships(lines, symbols_)
    ELSE _extract_generic_relationships_simple(lines, symbols_)

\* relationships.get(symbol['name'], [])
RelationshipsOf(rels, name) ==
    LET Owned(r) == r.owner = name
    IN  SelectSeq(rels, Owned)

\* what the installation offers: the grammar package of the language can be
\* imported, the capture query file of the language can be read
ParserEnvs == [parser : BOOLEAN, query : BOOLEAN]
LoadedEnv == [parser |-> TRUE, query |-> TRUE]

\* None when the grammar package is missing or fails to load
_load_parser(env, language) == IF env.parser THEN language ELSE None

\* None when the query file is missing or unreadable
_load_query(env, language) == IF env.query THEN language ELSE None

\* BaseParser.parse_file on a file holding content c; << >> for an unreadable
\* file, an unknown language, a parser or a query that cannot be loaded
parse_file_in(env, file_path, c) ==
    IF c = 0 \/ detect_language(file_path) = None THEN << >>
    ELSE IF _load_parser(env, detect_language(file_path)) = None THEN << >>
    ELSE IF _load_query(env, detect_language(file_path)) = None THEN << >>
    ELSE LET language == detect_language(file_path)
             symbols_ == _extract_symbols(Content(c), language, file_path)
             rels == _extract_relationships(Content(c).lines, language, symbols_)
         IN  [k \in 1..Len(symbols_) |->
                [name |-> symbols_[k].name,
                 symbol_type |-> symbols_[k].symbol_type,
                 line_start |-> symbols_[k].line_start,
                 line_end |-> symbols_[k].line_end,
                 code_snippet |-> symbols_[k].code_snippet,
                 language |-> symbols_[k].language,
                 file_path |-> symbols_[k].file_path,
                 relationships |-> RelationshipsOf(rels, symbols_[k].name)]]

\* parse_file where every grammar and query is installed
parse_file(file_path, c) == parse_file_in(LoadedEnv, file_path, c)


(***************************************************************************)
(* Graph store (src/db.py).  A store value is the content of the three     *)
(* tables; every method opens its own connection.                          *)
(***************************************************************************)
Names == {"foo", "bar", "foobar", "qux", "main", "App"}

Store(symbols_, relationships_, embeddings_) ==
    [symbols |-> symbols_, relationships |-> relationships_, embeddings |-> embeddings_]

\* sqlite3.connect leaves PRAGMA foreign_keys at its default, OFF; only the
\* connection init_database uses for the schema turns it on
_get_connection == [foreign_keys |-> FALSE]

MaxOf(S) == CHOOSE x \in S : \A y \in S : y <= x

\* INTEGER PRIMARY KEY without AUTOINCREMENT: one more than the largest rowid
NextRowId(rows) == IF rows = {} THEN 1 ELSE MaxOf({r.id : r \in rows}) + 1

get_file_hash(tree, file_path) == tree[file_path]

\* ON DELETE CASCADE of relationships, applied only by a connection that
\* enforces foreign keys
DeleteSymbolRows(conn, st, rows) ==
    LET ids == {r.id : r \in rows}
    IN  [st EXCEPT
           !.symbols = st.symbols \ rows,
           !.relationships =
               IF conn.foreign_keys
               THEN {r \in st.relationships :
                       r.source_symbol_id \notin ids /\ r.target_symbol_id \notin ids}
               ELSE st.relationships]

SameSymbolKey(r, project_id, sym) ==
    /\ r.project_id = project_id
    /\ r.language = sym.language
    /\ r.name = sym.name
    /\ r.file_path = sym.file_path
    /\ r.line_start = sym.line_start

SymbolRow(id, project_id, sym, file_hash) ==
    [id |-> id, project_id |-> project_id, language |-> sym.language,
     symbol_type |-> sym.symbol_type, name |-> sym.name, file_path |-> sym.file_path,
     line_start |-> sym.line_start, line_end |-> sym.line_end,
     code_snippet |-> sym.code_snippet, file_hash |-> file_hash]

\* a plain INSERT in place of INSERT OR REPLACE: the conflicting row stays
insert_symbol_plain_insert(st, sym, file_hash, project_id) ==
    LET id == NextRowId(st.symbols)
    IN  [st |-> [st EXCEPT !.symbols = st.symbols \cup {SymbolRow(id, project_id, sym, file_hash)}],
         id |-> id]

\* INSERT OR REPLACE INTO symbols: the rowid is taken before the conflicting
\* row is removed, and the removal does not run the foreign-key actions
insert_symbol(st, sym, file_hash, project_id) ==
    LET conflict == {r \in st.symbols : SameSymbolKey(r, project_id, sym)}
        id == NextRowId(st.symbols)
    IN  [st |-> [st EXCEPT !.symbols = (st.symbols \ conflict)
                                        \cup {SymbolRow(id, project_id, sym, file_hash)}],
         id |-> id]

\* the text the embedding is computed from stands for the vector
EmbeddingText(sym) == <<sym.symbol_type, sym.name, sym.code_snippet>>

insert_embedding(st, symbol_id, embedding) ==
    [st EXCEPT !.embeddings = {e \in st.embeddings : e.id # symbol_id}
                               \cup {[id |-> symbol_id, embedding |-> embedding]}]

insert_relationship(st, source_symbol_id, target_symbol_id, relationship_type, project_id) ==
    LET conflict == {r \in st.relationships :
                        /\ r.project_id = project_id
                        /\ r.source_symbol_id = source_symbol_id
                        /\ r.target_symbol_id = target_symbol_id
                        /\ r.relationship_type = relationship_type}
        id == NextRowId(st.relationships)
    IN  [st EXCEPT !.relationships = (st.relationships \ conflict)
                      \cup {[id |-> id, project_id |-> project_id,
                             source_symbol_id |-> source_symbol_id,
                             target_symbol_id |-> target_symbol_id,
                             relationship_type |-> relationship_type]}]

FileSymbols(symbols_, file_path, project_id) ==
    {r \in symbols_ : r.file_path = file_path /\ r.project_id = project_id}

ProjectSymbols(symbols_, project_id) == {r \in symbols_ : r.project_id = project_id}

\* the symbol rows go, their embedding rows stay
delete_file_symbols_keeps_embeddings(st, file_path, project_id) ==
    DeleteSymbolRows(_get_connection, st, FileSymbols(st.symbols, file_path, project_id))

\* the embedding rows of the file's symbols, then its symbol rows
delete_file_symbols(st, file_path, project_id) ==
    LET rows == FileSymbols(st.symbols, file_path, project_id)
        symbol_ids == {r.id : r \in rows}
        st1 == [st EXCEPT !.embeddings = {e \in st.embeddings : e.id \notin symbol_ids}]
    IN  DeleteSymbolRows(_get_connection, st1, rows)

delete_project(st, project_id) ==
    LET rows == ProjectSymbols(st.symbols, project_id)
        symbol_ids == {r.id : r \in rows}
        st1 == [st EXCEPT !.embeddings = {e \in st.embeddings : e.id \notin symbol_ids}]
    IN  DeleteSymbolRows(_get_connection, st1, rows)

\* the stored hash is never matched: every readable file needs an update
file_needs_update_no_match(st, tree, file_path, project_id) ==
    get_file_hash(tree, file_path) # NoHash

\* count == 0 of the rows stamped with the file's current hash
file_needs_update(st, tree, file_path, project_id) ==
    IF get_file_hash(tree, file_path) = NoHash THEN FALSE
    ELSE {r \in st.symbols : /\ r.file_path = file_path
                             /\ r.file_hash = get_file_hash(tree, file_path)
                             /\ r.project_id = project_id} = {}

\* ORDER BY name, file_path; rows equal on both come out in rowid order
RowBefore(r1, r2) ==
    IF r1.name # r2.name THEN LexLess(NameChars(r1.name), NameChars(r2.name))
    ELSE IF r1.file_path # r2.file_path
         THEN LexLess(PathChars(r1.file_path), PathChars(r2.file_path))
         ELSE r1.id < r2.id

RECURSIVE SortRows(_)
SortRows(rows) ==
    IF rows = {} THEN << >>
    ELSE LET first == CHOOSE r \in rows : \A q \in rows \ {r} : RowBefore(r, q)
         IN  <<first>> \o SortRows(rows \ {first})

\* WHERE name LIKE '%' || name || '%' AND project_id = ?
search_by_name(st, name, project_id) ==
    SortRows({r \in st.symbols :
                /\ IsSubstring(NameChars(name), NameChars(r.name))
                /\ r.project_id = project_id})

\* a row of relationships r JOIN symbols s (source) JOIN symbols t (target)
Joined(st, r) ==
    {[r |-> r, s |-> s, t |-> t] : <<s, t>> \in
        {<<s, t>> \in st.symbols \X st.symbols :
            s.id = r.source_symbol_id /\ t.id = r.target_symbol_id}}

\* ORDER BY s.file_path, s.line_start; rows equal on both in relationship order
CallerBefore(j1, j2) ==
    IF j1.s.file_path # j2.s.file_path
    THEN LexLess(PathChars(j1.s.file_path), PathChars(j2.s.file_path))
    ELSE IF j1.s.line_start # j2.s.line_start THEN j1.s.line_start < j2.s.line_start
    ELSE j1.r.id < j2.r.id

RECURSIVE SortCallers(_)
SortCallers(rows) ==
    IF rows = {} THEN << >>
    ELSE LET first == CHOOSE j \in rows : \A q \in rows \ {j} : CallerBefore(j, q)
         IN  <<first>> \o SortCallers(rows \ {first})

CallerRow(j) ==
    [caller_id |-> j.s.id, caller_name |-> j.s.name, caller_type |-> j.s.symbol_type,
     caller_file |-> j.s.file_path, caller_line |-> j.s.line_start,
     caller_code |-> j.s.code_snippet, function_name |-> j.t.name,
     function_file |-> j.t.file_path, function_line |-> j.t.line_start]

\* WHERE name = ? AND symbol_type IN ('function', 'method') [AND project_id = ?]
FunctionIds(st, function_name, project_id) ==
    {t.id : t \in {t \in st.symbols : /\ t.name = function_name
                                       /\ t.symbol_type \in {"function", "method"}
                                       /\ (project_id # None => t.project_id = project_id)}}

\* the target is matched with LIKE, as search_by_name does
find_callers_like(st, function_name, project_id) ==
    LET function_ids == {t.id : t \in {t \in st.symbols :
                              /\ IsSubstring(NameChars(function_name), NameChars(t.name))
                              /\ t.symbol_type \in {"function", "method"}
                              /\ (project_id # None => t.project_id = project_id)}}
        rows == UNION {Joined(st, r) : r \in {r \in st.relationships :
                          /\ r.target_symbol_id \in function_ids
                          /\ r.relationship_type = "calls"
                          /\ (project_id # None => r.project_id = project_id)}}
        sorted == SortCallers(rows)
    IN  [k \in 1..Len(sorted) |-> CallerRow(sorted[k])]

find_callers(st, function_name, project_id) ==
    LET function_ids == FunctionIds(st, function_name, project_id)
        rows == UNION {Joined(st, r) : r \in {r \in st.relationships :
                          /\ r.target_symbol_id \in function_ids
                          /\ r.relationship_type = "calls"
                          /\ (project_id # None => r.project_id = project_id)}}
        sorted == SortCallers(rows)
    IN  [k \in 1..Len(sorted) |-> CallerRow(sorted[k])]

\* the relationship types in alphabetical order
TypeRank(type) ==
    CASE type = "calls" -> 1
      [] type = "inherits" -> 2
      [] OTHER -> 3

\* ORDER BY r.relationship_type, s.name, t.name; equal rows in relationship order
RelationshipBefore(j1, j2) ==
    IF j1.r.relationship_type # j2.r.relationship_type
    THEN TypeRank(j1.r.relationship_type) < TypeRank(j2.r.relationship_type)
    ELSE IF j1.s.name # j2.s.name THEN LexLess(NameChars(j1.s.name), NameChars(j2.s.name))
    ELSE IF j1.t.name # j2.t.name THEN LexLess(NameChars(j1.t.name), NameChars(j2.t.name))
    ELSE j1.r.id < j2.r.id

RECURSIVE SortRelationships(_)
SortRelationships(rows) ==
    IF rows = {} THEN << >>
    ELSE LET first == CHOOSE j \in rows : \A q \in rows \ {j} : RelationshipBefore(j, q)
         IN  <<first>> \o SortRelationships(rows \ {first})

Directions == {"incoming", "outgoing", "both"}

\* CASE WHEN r.source_symbol_id = ? THEN 'outgoing' ELSE 'incoming' END
DirectionTag(r, symbol_id) ==
    IF r.source_symbol_id = symbol_id THEN "outgoing" ELSE "incoming"

get_symbol_relationships(st, symbol_id, relationship_type, direction, project_id) ==
    LET Where(r) ==
            /\ CASE direction = "outgoing" -> r.source_symbol_id = symbol_id
                  [] direction = "incoming" -> r.target_symbol_id = symbol_id
                  [] OTHER -> r.source_symbol_id = symbol_id \/ r.target_symbol_id = symbol_id
            /\ relationship_type # None => r.relationship_type = relationship_type
            /\ project_id # None => r.project_id = project_id
        sorted == SortRelationships(UNION {Joined(st, r) : r \in {r \in st.relationships : Where(r)}})
    IN  [k \in 1..Len(sorted) |->
            [id |-> sorted[k].r.id, relationship_type |-> sorted[k].r.relationship_type,
             source_id |-> sorted[k].s.id, source_name |-> sorted[k].s.name,
             source_file |-> sorted[k].s.file_path, source_line |-> sorted[k].s.line_start,
             target_id |-> sorted[k].t.id, target_name |-> sorted[k].t.name,
             target_file |-> sorted[k].t.file_path, target_line |-> sorted[k].t.line_start,
             direction |-> DirectionTag(sorted[k].r, symbol_id)]]

\* ORDER BY rowid, the order of a scan of table symbols
RECURSIVE ByRowid(_)
ByRowid(rows) ==
    IF rows = {} THEN << >>
    ELSE LET first == CHOOSE r \in rows : \A q \in rows : r.id <= q.id
         IN  <<first>> \o ByRowid(rows \ {first})

\* LIMIT n: the first n rows, every row when n is negative
Limit(rows, n) ==
    IF n < 0 \/ n >= Len(rows) THEN rows ELSE SubSeq(rows, 1, n)

\* SELECT symbols.*, 0.0 AS distance
WithDistance(rows) == [k \in 1..Len(rows) |-> [symbol |-> rows[k], distance |-> 0]]

\* the state of the vector backend: no vec0 table, a MATCH query that raises
\* OperationalError, or a working index
Backends == {"absent", "error", "vec0"}

\* the symbol rows the ranked embedding ids join to, in that order
RECURSIVE JoinSymbols(_, _, _)
JoinSymbols(st, ids, project_id) ==
    IF ids = << >> THEN << >>
    ELSE LET hit == {r \in st.symbols : /\ r.id = Head(ids)
                                        /\ (project_id # None => r.project_id = project_id)}
         IN  ByRowid(hit) \o JoinSymbols(st, Tail(ids), project_id)

\* the fallback ignores LIMIT and returns every row
search_semantic_unlimited(st, backend, ranked, top_k, project_id) ==
    IF backend = "vec0"
    THEN WithDistance(JoinSymbols(st, Limit(ranked, top_k), project_id))
    ELSE WithDistance(ByRowid({r \in st.symbols : project_id # None => r.project_id = project_id}))

\* ranked is the order in which the index matches the embedding ids
search_semantic(st, backend, ranked, top_k, project_id) ==
    IF backend = "vec0"
    THEN WithDistance(JoinSymbols(st, Limit(ranked, top_k), project_id))
    ELSE WithDistance(Limit(ByRowid({r \in st.symbols :
                                        project_id # None => r.project_id = project_id}),
                            top_k))


(***************************************************************************)
(* Project table.  DatabaseManager.get_project_info,                       *)
(* create_or_update_project and update_project_scan_info are called by     *)
(* src/main.py but defined nowhere under src/; they follow the Project     *)
(* entity of the specification: one row per project_id, written at the     *)
(* start of every index operation, its scan commit and branch updated      *)
(* after processing and cleared by force_full_rescan.                      *)
(***************************************************************************)
ProjectRow(project_id, is_git_repo, last_commit_hash, last_branch) ==
    [project_id |-> project_id, is_git_repo |-> is_git_repo,
     last_commit_hash |-> last_commit_hash, last_branch |-> last_branch]

\* the rows for the project: none or one
get_project_info(projects_, project_id) == {r \in projects_ : r.project_id = project_id}

create_or_update_project(projects_, project_id, is_git_repo, last_commit_hash, last_branch) ==
    {r \in projects_ : r.project_id # project_id}
    \cup {ProjectRow(project_id, is_git_repo, last_commit_hash, last_branch)}

update_project_scan_info(projects_, project_id, commit_hash, branch) ==
    {IF r.project_id = project_id
     THEN [r EXCEPT !.last_commit_hash = commit_hash, !.last_branch = branch]
     ELSE r : r \in projects_}

(***************************************************************************)
(* Version-control client (src/git_utils.py) over the modelled repository. *)
(***************************************************************************)
HeadTree(commits_, head_) == IF head_ = NoCommit THEN EmptyTree ELSE commits_[head_]

is_git_repo(is_repo_) == is_repo_

\* None when not a repository or when HEAD has no commit yet
get_current_commit_hash(is_repo_, head_) == IF is_repo_ THEN head_ ELSE NoCommit

get_current_branch(is_repo_) == IF is_repo_ THEN "main" ELSE None

\* what is left of a commit whose objects were pruned from the repository
Pruned == [f \in Files |-> -1]

\* repo.commit(hash) finds the commit
Resolves(commits_, hash) == hash \in DOMAIN commits_ /\ commits_[hash] # Pruned

\* files differing between HEAD and since_commit; nothing when either commit
\* cannot be resolved
get_changed_files(is_repo_, commits_, head_, since_commit) ==
    IF ~is_repo_ THEN {}
    ELSE IF head_ = NoCommit THEN {}
    ELSE IF ~Resolves(commits_, since_commit) THEN {}
    ELSE {f \in Files : commits_[head_][f] # commits_[since_commit][f]}

get_untracked_files(is_repo_, commits_, head_, tree) ==
    IF ~is_repo_ THEN {}
    ELSE {f \in Files : tree[f] # 0 /\ HeadTree(commits_, head_)[f] = 0}

\* staged and unstaged changes of tracked files; reading HEAD's commit of an
\* empty repository raises and yields nothing
get_modified_files(is_repo_, commits_, head_, tree) ==
    IF ~is_repo_ THEN {}
    ELSE IF head_ = NoCommit THEN {}
    ELSE {f \in Files : commits_[head_][f] # 0 /\ tree[f] # commits_[head_][f]}

get_all_changed_files(is_repo_, commits_, head_, tree, since_commit) ==
    get_changed_files(is_repo_, commits_, head_, since_commit)
    \cup get_untracked_files(is_repo_, commits_, head_, tree)
    \cup get_modified_files(is_repo_, commits_, head_, tree)


(***************************************************************************)
(* Scan planner (index_codebase, file discovery).                          *)
(***************************************************************************)
\* the prior scan commit read from the project row, None without a row
LastCommitHash(projects_, project_id) ==
    IF get_project_info(projects_, project_id) = {} THEN NoCommit
    ELSE (CHOOSE r \in get_project_info(projects_, project_id) : TRUE).last_commit_hash

\* the comparison of the two commits is dropped
TakesIncremental_no_compare(is_repo_, last_commit_hash, current_commit_hash) ==
    /\ is_git_repo(is_repo_)
    /\ last_commit_hash # NoCommit

\* is_git_repo and last_commit_hash and current_commit_hash != last_commit_hash
TakesIncremental(is_repo_, last_commit_hash, current_commit_hash) ==
    /\ is_git_repo(is_repo_)
    /\ last_commit_hash # NoCommit
    /\ current_commit_hash # last_commit_hash

\* the changed-file list is ignored: every recognized file is planned
IncrementalFiles_whole_tree(is_repo_, commits_, head_, tree, last_commit_hash) ==
    {f \in Files : tree[f] # 0 /\ detect_language(f) # None}

IncrementalFiles(is_repo_, commits_, head_, tree, last_commit_hash) ==
    {f \in get_all_changed_files(is_repo_, commits_, head_, tree, last_commit_hash) :
        tree[f] # 0 /\ detect_language(f) # None}

\* the walk without the file_needs_update filter
FullScanFiles_unfiltered(st, tree, project_id) ==
    {f \in Files : tree[f] # 0 /\ detect_language(f) # None}

FullScanFiles(st, tree, project_id) ==
    {f \in Files : /\ tree[f] # 0
                   /\ detect_language(f) # None
                   /\ file_needs_update(st, tree, f, project_id)}

(***************************************************************************)
(* Per-file replace protocol (index_codebase, the body of the file loop).  *)
(***************************************************************************)
NoSymbolIds == [n \in Names |-> 0]

\* insert each symbol and its embedding, remembering name -> id
RECURSIVE InsertSymbols(_, _, _, _)
InsertSymbols(acc, syms, file_hash, project_id) ==
    IF syms = << >> THEN acc
    ELSE LET ins == insert_symbol(acc.st, Head(syms), file_hash, project_id)
             st2 == insert_embedding(ins.st, ins.id, EmbeddingText(Head(syms)))
         IN  InsertSymbols([st |-> st2,
                            symbol_ids |-> [acc.symbol_ids EXCEPT ![Head(syms).name] = ins.id],
                            total |-> acc.total + 1],
                           Tail(syms), file_hash, project_id)

\* resolve each target by name, first match wins; drop it when nothing matches
RECURSIVE InsertRelationships(_, _, _, _)
InsertRelationships(st, source_id, rels, project_id) ==
    IF rels = << >> THEN st
    ELSE LET target_symbols == search_by_name(st, Head(rels).target, project_id)
             st2 == IF target_symbols # << >>
                    THEN insert_relationship(st, source_id, target_symbols[1].id,
                                             Head(rels).type, project_id)
                    ELSE st
         IN  InsertRelationships(st2, source_id, Tail(rels), project_id)

RECURSIVE ProcessRelationships(_, _, _, _)
ProcessRelationships(st, syms, symbol_ids, project_id) ==
    IF syms = << >> THEN st
    ELSE LET source_id == symbol_ids[Head(syms).name]
             st2 == IF Head(syms).relationships # << >> /\ source_id # 0
                    THEN InsertRelationships(st, source_id, Head(syms).relationships, project_id)
                    ELSE st
         IN  ProcessRelationships(st2, Tail(syms), symbol_ids, project_id)

\* symbol['symbol_type'] or symbol['code_snippet'] raises KeyError while the
\* batch texts are built, before anything of the batch is stored
BatchRaises(syms) ==
    \E k \in 1..Len(syms) : syms[k].symbol_type = MissingKey \/ syms[k].code_snippet = MissingKey

\* the files of the plan whose exception reached the file loop, in plan order
FileErrors(tree, files_to_process) ==
    LET Raised(f) == BatchRaises(parse_file(f, tree[f]))
    IN  SelectSeq(files_to_process, Raised)

\* delete the file's rows, parse it, and store what was extracted
ProcessFile(st, tree, file_path, project_id) ==
    LET st1 == delete_file_symbols(st, file_path, project_id)
        syms == parse_file(file_path, tree[file_path])
    IN  IF syms = << >> \/ BatchRaises(syms)
        THEN [st |-> st1, processed |-> 0, total |-> 0]
        ELSE LET acc == InsertSymbols([st |-> st1, symbol_ids |-> NoSymbolIds, total |-> 0],
                                      syms, get_file_hash(tree, file_path), project_id)
             IN  [st |-> ProcessRelationships(acc.st, syms, acc.symbol_ids, project_id),
                  processed |-> 1, total |-> acc.total]

RECURSIVE ProcessFiles(_, _, _, _)
ProcessFiles(run, tree, files_to_process, project_id) ==
    IF files_to_process = << >> THEN run
    ELSE LET one == ProcessFile(run.st, tree, Head(files_to_process), project_id)
         IN  ProcessFiles([st |-> one.st,
                           processed_files |-> run.processed_files + one.processed,
                           total_symbols |-> run.total_symbols + one.total],
                          tree, Tail(files_to_process), project_id)

(***************************************************************************)
(* The same protocol with failures.  A fault names the file, the call that *)
(* raises (kind) and, for a symbol or a relationship, which one (k, j).    *)
(*   delete        delete_file_symbols raises (store error)                *)
(*   parse         reading or parsing raises inside parse_file             *)
(*   batch         building the batch texts raises (malformed symbol)      *)
(*   symbol        insert_symbol of the k-th symbol raises                 *)
(*   embedding     insert_embedding of the k-th symbol raises              *)
(*   relationship  resolving or inserting the j-th relationship of the     *)
(*                 k-th symbol raises                                      *)
(***************************************************************************)
Fault(file, kind, k, j) == [file |-> file, kind |-> kind, k |-> k, j |-> j]

\* the failures that can happen while the given files are processed
FaultPoints(tree, files) ==
    UNION {LET syms == parse_file(f, tree[f])
           IN  {Fault(f, "delete", 0, 0), Fault(f, "parse", 0, 0)}
               \cup {Fault(f, "batch", 0, 0) : k \in 1..Len(syms)}
               \cup {Fault(f, kind, k, 0) : kind \in {"symbol", "embedding"},
                                            k \in 1..Len(syms)}
               \cup UNION {{Fault(f, "relationship", k, j) :
                               j \in 1..Len(syms[k].relationships)} : k \in 1..Len(syms)}
           : f \in files}

RECURSIVE InsertSymbolsWithFaults_counts_first(_, _, _, _, _, _)
RECURSIVE InsertSymbolsWithFaults(_, _, _, _, _, _)
\* total_symbols is incremented before the two inserts are tried
InsertSymbolsWithFaults_counts_first(acc, syms, k, file_hash, project_id, faults) ==
    IF k > Len(syms) THEN acc
    ELSE LET file == syms[k].file_path
             ins == insert_symbol(acc.st, syms[k], file_hash, project_id)
             st2 == insert_embedding(ins.st, ins.id, EmbeddingText(syms[k]))
             next ==
                 IF Fault(file, "symbol", k, 0) \in faults
                 THEN [acc EXCEPT !.total = acc.total + 1]
                 ELSE IF Fault(file, "embedding", k, 0) \in faults
                 THEN [acc EXCEPT !.st = ins.st, !.symbol_ids[syms[k].name] = ins.id,
                                  !.total = acc.total + 1]
                 ELSE [st |-> st2,
                       symbol_ids |-> [acc.symbol_ids EXCEPT ![syms[k].name] = ins.id],
                       total |-> acc.total + 1]
         IN  InsertSymbolsWithFaults_counts_first(next, syms, k + 1, file_hash, project_id, faults)

\* the inner try of the batch loop: a failing symbol is logged and skipped
InsertSymbolsWithFaults(acc, syms, k, file_hash, project_id, faults) ==
    IF k > Len(syms) THEN acc
    ELSE LET file == syms[k].file_path
             ins == insert_symbol(acc.st, syms[k], file_hash, project_id)
             st2 == insert_embedding(ins.st, ins.id, EmbeddingText(syms[k]))
             next ==
                 IF Fault(file, "symbol", k, 0) \in faults THEN acc
                 ELSE IF Fault(file, "embedding", k, 0) \in faults
                 THEN [acc EXCEPT !.st = ins.st, !.symbol_ids[syms[k].name] = ins.id]
                 ELSE [st |-> st2,
                       symbol_ids |-> [acc.symbol_ids EXCEPT ![syms[k].name] = ins.id],
                       total |-> acc.total + 1]
         IN  InsertSymbolsWithFaults(next, syms, k + 1, file_hash, project_id, faults)

\* the try around one relationship: a failing one is logged and skipped
RECURSIVE InsertRelationshipsWithFaults(_, _, _, _, _, _, _, _)
InsertRelationshipsWithFaults(st, source_id, rels, j, project_id, faults, file, k) ==
    IF j > Len(rels) THEN st
    ELSE LET target_symbols == search_by_name(st, rels[j].target, project_id)
             st2 == IF Fault(file, "relationship", k, j) \notin faults /\ target_symbols # << >>
                    THEN insert_relationship(st, source_id, target_symbols[1].id,
                                             rels[j].type, project_id)
                    ELSE st
         IN  InsertRelationshipsWithFaults(st2, source_id, rels, j + 1, project_id, faults, file, k)

RECURSIVE ProcessRelationshipsWithFaults(_, _, _, _, _, _)
ProcessRelationshipsWithFaults(st, syms, k, symbol_ids, project_id, faults) ==
    IF k > Len(syms) THEN st
    ELSE LET source_id == symbol_ids[syms[k].name]
             st2 == IF syms[k].relationships # << >> /\ source_id # 0
                    THEN InsertRelationshipsWithFaults(st, source_id, syms[k].relationships, 1,
                                                       project_id, faults, syms[k].file_path, k)
                    ELSE st
         IN  ProcessRelationshipsWithFaults(st2, syms, k + 1, symbol_ids, project_id, faults)

\* one iteration of the file loop; errors holds the file when the exception
\* reached the handler of the loop
ProcessFileWithFaults(st, tree, file_path, project_id, faults) ==
    IF Fault(file_path, "delete", 0, 0) \in faults
    THEN [st |-> st, processed |-> 0, total |-> 0, errors |-> <<file_path>>]
    ELSE LET st1 == delete_file_symbols(st, file_path, project_id)
             syms == IF Fault(file_path, "parse", 0, 0) \in faults THEN << >>
                     ELSE parse_file(file_path, tree[file_path])
         IN  IF syms = << >>
             THEN [st |-> st1, processed |-> 0, total |-> 0, errors |-> << >>]
             ELSE IF Fault(file_path, "batch", 0, 0) \in faults \/ BatchRaises(syms)
             THEN [st |-> st1, processed |-> 0, total |-> 0, errors |-> <<file_path>>]
             ELSE LET acc == InsertSymbolsWithFaults(
                                 [st |-> st1, symbol_ids |-> NoSymbolIds, total |-> 0],
                                 syms, 1, get_file_hash(tree, file_path), project_id, faults)
                  IN  [st |-> ProcessRelationshipsWithFaults(acc.st, syms, 1, acc.symbol_ids,
                                                             project_id, faults),
                       processed |-> 1, total |-> acc.total, errors |-> << >>]

RECURSIVE ProcessFilesWithFaults_abort(_, _, _, _, _)
RECURSIVE ProcessFilesWithFaults(_, _, _, _, _)
\* the file loop giving up at the first file whose exception reaches it
ProcessFilesWithFaults_abort(run, tree, files_to_process, project_id, faults) ==
    IF files_to_process = << >> THEN run
    ELSE LET one == ProcessFileWithFaults(run.st, tree, Head(files_to_process), project_id, faults)
             run2 == [st |-> one.st,
                      processed_files |-> run.processed_files + one.processed,
                      total_symbols |-> run.total_symbols + one.total,
                      errors |-> run.errors \o one.errors]
         IN  IF one.errors # << >> THEN run2
             ELSE ProcessFilesWithFaults_abort(run2, tree, Tail(files_to_process),
                                               project_id, faults)

ProcessFilesWithFaults(run, tree, files_to_process, project_id, faults) ==
    IF files_to_process = << >> THEN run
    ELSE LET one == ProcessFileWithFaults(run.st, tree, Head(files_to_process), project_id, faults)
         IN  ProcessFilesWithFaults([st |-> one.st,
                                     processed_files |-> run.processed_files + one.processed,
                                     total_symbols |-> run.total_symbols + one.total,
                                     errors |-> run.errors \o one.errors],
                                    tree, Tail(files_to_process), project_id, faults)

\* the orders in which a set of files can be listed
Orders(S) ==
    {o \in [1..Cardinality(S) -> S] : \A i, j \in 1..Cardinality(S) : i # j => o[i] # o[j]}

(***************************************************************************)
(* Operations.                                                             *)
(***************************************************************************)
\* the arguments of a query operation; the defaults stand for "not given"
NoArgs ==
    [file |-> None, env |-> LoadedEnv, backend |-> None, top_k |-> 0, name |-> None,
     symbol_id |-> 0, direction |-> None, filtered |-> FALSE,
     parser |-> None, capture_name |-> None, language |-> None]

Result(op, project_id, is_git, scan_mode, files, processed_files, total_symbols_added, last_commit_hash, current_commit_hash) ==
    [op |-> op, project_id |-> project_id, success |-> TRUE, is_git_repo |-> is_git,
     scan_mode |-> scan_mode, files_to_process |-> files,
     processed_files |-> processed_files, total_symbols_added |-> total_symbols_added,
     last_commit_hash |-> last_commit_hash, current_commit_hash |-> current_commit_hash,
     errors |-> << >>, faults |-> {}, args |-> NoArgs, rows |-> << >>]

EnvResult == Result("env", None, FALSE, None, {}, 0, 0, NoCommit, NoCommit)

\* the index operations that may be in flight at the same time
Operations == {1, 2}

\* the local variables of index_codebase; pc is the call it makes next
IdleOperation ==
    [pc |-> "idle", project_id |-> None, planned |-> {}, files |-> << >>, syms |-> << >>,
     k |-> 0, symbol_ids |-> NoSymbolIds, file_hash |-> NoHash,
     processed_files |-> 0, total_symbols |-> 0, overlapped |-> FALSE]

Init ==
    /\ fs = InitialTree
    /\ is_repo = FALSE
    /\ commits = << >>
    /\ head = NoCommit
    /\ projects = {}
    /\ symbols = {}
    /\ relationships = {}
    /\ embeddings = {}
    /\ edits = 0
    /\ result = EnvResult
    /\ running = [i \in Operations |-> IdleOperation]

\* a file of the tree is created, edited or removed
WriteFile(f, c) ==
    /\ FileContents(f) # {}
    /\ c \in FileContents(f) \cup {0}
    /\ c # fs[f]
    /\ edits < MaxEdits
    /\ fs' = [fs EXCEPT ![f] = c]
    /\ edits' = edits + 1
    /\ result' = EnvResult
    /\ UNCHANGED <<is_repo, commits, head, projects, symbols, relationships, embeddings, running>>

GitInit ==
    /\ ~is_repo
    /\ is_repo' = TRUE
    /\ result' = EnvResult
    /\ UNCHANGED <<fs, commits, head, projects, symbols, relationships, embeddings, edits, running>>

\* git add -A; git commit
GitCommit ==
    /\ is_repo
    /\ Len(commits) < MaxCommits
    /\ fs # HeadTree(commits, head)
    /\ commits' = Append(commits, fs)
    /\ head' = Len(commits) + 1
    /\ result' = EnvResult
    /\ UNCHANGED <<fs, is_repo, projects, symbols, relationships, embeddings, edits, running>>

IndexCodebase(project_id) ==
    LET st == Store(symbols, relationships, embeddings)
        is_git == is_git_repo(is_repo)
        last_commit_hash == LastCommitHash(projects, project_id)
        current_commit_hash == get_current_commit_hash(is_repo, head)
        current_branch == get_current_branch(is_repo)
        projects1 == create_or_update_project(projects, project_id, is_git,
                                              current_commit_hash, current_branch)
        incremental == TakesIncremental(is_repo, last_commit_hash, current_commit_hash)
        files_to_process ==
            IF incremental
            THEN IncrementalFiles(is_repo, commits, head, fs, last_commit_hash)
            ELSE FullScanFiles(st, fs, project_id)
    IN  \E order \in Orders(files_to_process) :
          \E run \in {ProcessFiles([st |-> st, processed_files |-> 0, total_symbols |-> 0],
                                   fs, order, project_id)} :
              /\ \A r \in run.st.symbols : r.id <= MaxSymbolId
              /\ \A r \in run.st.relationships : r.id <= MaxRelationshipId
              /\ symbols' = run.st.symbols
              /\ relationships' = run.st.relationships
              /\ embeddings' = run.st.embeddings
              /\ projects' = IF is_git
                             THEN update_project_scan_info(projects1, project_id,
                                                           current_commit_hash, current_branch)
                             ELSE projects1
              /\ result' = [Result("index", project_id, is_git,
                                   IF incremental THEN "incremental" ELSE "full",
                                   files_to_process, run.processed_files, run.total_symbols,
                                   last_commit_hash, current_commit_hash)
                               EXCEPT !.errors = FileErrors(fs, order)]
              /\ UNCHANGED <<fs, is_repo, commits, head, edits, running>>

ForceFullRescan(project_id) ==
    /\ projects' = update_project_scan_info(projects, project_id, NoCommit, None)
    \* last_commit_hash keeps the commit that was recorded before it is cleared
    /\ result' = Result("force_full_rescan", project_id, FALSE, None, {}, 0, 0,
                        LastCommitHash(projects, project_id), NoCommit)
    /\ UNCHANGED <<fs, is_repo, commits, head, symbols, relationships, embeddings, edits, running>>

DeleteProject(project_id) ==
    LET st == delete_project(Store(symbols, relationships, embeddings), project_id)
    IN  /\ symbols' = st.symbols
        /\ relationships' = st.relationships
        /\ embeddings' = st.embeddings
        /\ result' = Result("delete_project", project_id, FALSE, None, {}, 0, 0,
                            NoCommit, NoCommit)
        /\ UNCHANGED <<fs, is_repo, commits, head, projects, edits, running>>

\* index_codebase during which the calls named by faults raise
IndexCodebaseWithFaults(project_id) ==
    LET st == Store(symbols, relationships, embeddings)
        is_git == is_git_repo(is_repo)
        last_commit_hash == LastCommitHash(projects, project_id)
        current_commit_hash == get_current_commit_hash(is_repo, head)
        current_branch == get_current_branch(is_repo)
        projects1 == create_or_update_project(projects, project_id, is_git,
                                              current_commit_hash, current_branch)
        incremental == TakesIncremental(is_repo, last_commit_hash, current_commit_hash)
        files_to_process ==
            IF incremental
            THEN IncrementalFiles(is_repo, commits, head, fs, last_commit_hash)
            ELSE FullScanFiles(st, fs, project_id)
    IN  \E order \in Orders(files_to_process) :
        \E faults \in {{}} \cup {{x} : x \in FaultPoints(fs, files_to_process)} :
          \E run \in {ProcessFilesWithFaults(
                          [st |-> st, processed_files |-> 0, total_symbols |-> 0,
                           errors |-> << >>],
                          fs, order, project_id, faults)} :
              /\ \A r \in run.st.symbols : r.id <= MaxSymbolId
              /\ \A r \in run.st.relationships : r.id <= MaxRelationshipId
              /\ symbols' = run.st.symbols
              /\ relationships' = run.st.relationships
              /\ embeddings' = run.st.embeddings
              /\ projects' = IF is_git
                             THEN update_project_scan_info(projects1, project_id,
                                                           current_commit_hash, current_branch)
                             ELSE projects1
              /\ result' = [Result("index", project_id, is_git,
                                   IF incremental THEN "incremental" ELSE "full",
                                   files_to_process, run.processed_files, run.total_symbols,
                                   last_commit_hash, current_commit_hash)
                            EXCEPT !.errors = run.errors, !.faults = faults]
              /\ UNCHANGED <<fs, is_repo, commits, head, edits, running>>

\* Two projects index a tree that is not under version control.
Next ==
    \/ \E f \in Files, c \in 0..4 : WriteFile(f, c)
    \/ \E p \in ProjectIds : IndexCodebase(p)
    \/ \E p \in ProjectIds : DeleteProject(p)

Spec == Init /\ [][Next]_vars

\* One project indexes a tree that becomes a git repository and gains commits.
GitProject == "p1"

GitNext ==
    \/ \E f \in Files, c \in 0..4 : WriteFile(f, c)
    \/ GitInit
    \/ GitCommit
    \/ IndexCodebase(GitProject)
    \/ ForceFullRescan(GitProject)
    \/ DeleteProject(GitProject)

GitSpec == Init /\ [][GitNext]_vars

\* One project indexes a tree that is not under version control while single
\* calls of the file loop fail.
\* ---- two index operations in flight at once, one database call per step ----

RaceProject == "p1"

InFlight(i) == running[i].pc \notin {"idle", "done"}

\* a step of operation i overlaps when the other operation is between its first and last call
Overlaps(i) == running[i].overlapped \/ \E j \in Operations \ {i} : InFlight(j)

\* the working tree is not a repository here: the plan is the full scan
BeginIndex(i) ==
    /\ running[i].pc = "idle"
    /\ ~is_git_repo(is_repo)
    /\ LET st == Store(symbols, relationships, embeddings)
           files_to_process == FullScanFiles(st, fs, RaceProject)
       IN  \E order \in Orders(files_to_process) :
             /\ projects' = create_or_update_project(projects, RaceProject, FALSE, NoCommit, None)
             /\ running' = [running EXCEPT ![i] =
                    [IdleOperation EXCEPT !.pc = IF order = << >> THEN "done" ELSE "delete",
                                          !.project_id = RaceProject,
                                          !.planned = files_to_process,
                                          !.files = order,
                                          !.overlapped = Overlaps(i)]]
             /\ result' = IF order = << >>
                          THEN Result("index", RaceProject, FALSE, "full", {}, 0, 0, NoCommit, NoCommit)
                          ELSE EnvResult
    /\ UNCHANGED <<fs, is_repo, commits, head, symbols, relationships, embeddings, edits>>

\* what the operation returns once its last file is done
Finished(op) ==
    Result("index", op.project_id, FALSE, "full", op.planned, op.processed_files,
           op.total_symbols, NoCommit, NoCommit)

\* move on to the next file of the plan, or return
NextFile(op) ==
    [op EXCEPT !.files = Tail(op.files), !.syms = << >>, !.k = 0,
               !.symbol_ids = NoSymbolIds, !.file_hash = NoHash,
               !.pc = IF Tail(op.files) = << >> THEN "done" ELSE "delete"]

\* delete_file_symbols, then parse_file and get_file_hash of the file as it is now
DeleteStep(i) ==
    /\ running[i].pc = "delete"
    /\ LET op == running[i]
           file_path == Head(op.files)
           st1 == delete_file_symbols(Store(symbols, relationships, embeddings),
                                      file_path, op.project_id)
           syms == parse_file(file_path, fs[file_path])
           op1 == [op EXCEPT !.overlapped = Overlaps(i)]
           op2 == IF syms = << >> \/ BatchRaises(syms)
                  THEN NextFile(op1)
                  ELSE [op1 EXCEPT !.pc = "symbols", !.syms = syms, !.k = 1,
                                   !.file_hash = get_file_hash(fs, file_path)]
       IN  /\ symbols' = st1.symbols
           /\ relationships' = st1.relationships
           /\ embeddings' = st1.embeddings
           /\ running' = [running EXCEPT ![i] = op2]
           /\ result' = IF op2.pc = "done" THEN Finished(op2) ELSE EnvResult
    /\ UNCHANGED <<fs, is_repo, commits, head, projects, edits>>

\* insert_symbol and insert_embedding of the k-th extracted symbol
SymbolStep(i) ==
    /\ running[i].pc = "symbols"
    /\ LET op == running[i]
           sym == op.syms[op.k]
           ins == insert_symbol(Store(symbols, relationships, embeddings), sym,
                                op.file_hash, op.project_id)
           st2 == insert_embedding(ins.st, ins.id, EmbeddingText(sym))
       IN  /\ ins.id <= MaxSymbolId
           /\ symbols' = st2.symbols
           /\ relationships' = st2.relationships
           /\ embeddings' = st2.embeddings
           /\ running' = [running EXCEPT ![i] =
                  [op EXCEPT !.symbol_ids[sym.name] = ins.id,
                             !.total_symbols = op.total_symbols + 1,
                             !.k = op.k + 1,
                             !.pc = IF op.k = Len(op.syms) THEN "relationships" ELSE "symbols",
                             !.overlapped = Overlaps(i)]]
           /\ result' = EnvResult
    /\ UNCHANGED <<fs, is_repo, commits, head, projects, edits>>

\* the relationships of the file, resolved against the store as it is now
RelationshipsStep(i) ==
    /\ running[i].pc = "relationships"
    /\ LET op == running[i]
           st2 == ProcessRelationships(Store(symbols, relationships, embeddings),
                                       op.syms, op.symbol_ids, op.project_id)
           op2 == NextFile([op EXCEPT !.processed_files = op.processed_files + 1,
                                      !.overlapped = Overlaps(i)])
       IN  /\ \A r \in st2.relationships : r.id <= MaxRelationshipId
           /\ symbols' = st2.symbols
           /\ relationships' = st2.relationships
           /\ embeddings' = st2.embeddings
           /\ running' = [running EXCEPT ![i] = op2]
           /\ result' = IF op2.pc = "done" THEN Finished(op2) ELSE EnvResult
    /\ UNCHANGED <<fs, is_repo, commits, head, projects, edits>>

FaultProject == "p1"

FaultNext ==
    \/ \E f \in Files, c \in 0..4 : WriteFile(f, c)
    \/ IndexCodebaseWithFaults(FaultProject)

FaultSpec == Init /\ [][FaultNext]_vars

RaceNext ==
    \/ \E c \in {0, 1, 2} : WriteFile("a.py", c)
    \/ \E i \in Operations : BeginIndex(i)
    \/ \E i \in Operations : DeleteStep(i)
    \/ \E i \in Operations : SymbolStep(i)
    \/ \E i \in Operations : RelationshipsStep(i)

RaceSpec == Init /\ [][RaceNext]_vars

\* the directories index_codebase is first called on
StartTrees ==
    {InitialTree,
     [f \in Files |-> IF f = "k.kt" THEN 6 ELSE 0],
     [f \in Files |-> IF f = "a.py" THEN 7 ELSE 0],
     [f \in Files |-> IF f = "m.elm" THEN 3 ELSE IF f = "k.kt" THEN 6 ELSE 0]}

TreeInit ==
    /\ fs \in StartTrees
    /\ is_repo = FALSE
    /\ commits = << >>
    /\ head = 0
    /\ projects = {}
    /\ symbols = {}
    /\ relationships = {}
    /\ embeddings = {}
    /\ edits = 0
    /\ result = EnvResult
    /\ running = [i \in Operations |-> IdleOperation]

TreeNext ==
    \/ \E f \in Files, c \in 0..6 : WriteFile(f, c)
    \/ \E p \in ProjectIds : IndexCodebase(p)

TreeSpec == TreeInit /\ [][TreeNext]_vars

QueryProject == "p1"

\* the values of models.SymbolType
SymbolType ==
    {"function", "class", "method", "variable", "constant", "interface", "type", "module",
     "package", "namespace", "enum", "struct", "trait", "protocol", "abstract_class",
     "constructor", "destructor", "property", "field", "parameter", "import", "export",
     "decorator", "annotation", "macro", "template", "generic", "alias", "typedef", "unknown"}

\* the tool find_function_callers
FindCallers(function_name, project_id) ==
    /\ result' = [Result("find_callers", project_id, FALSE, None, {}, 0, 0, NoCommit, NoCommit)
                     EXCEPT !.args = [NoArgs EXCEPT !.name = function_name,
                                                    !.filtered = project_id # None],
                            !.rows = find_callers(Store(symbols, relationships, embeddings),
                                                  function_name, project_id)]
    /\ UNCHANGED <<fs, is_repo, commits, head, projects, symbols, relationships, embeddings, edits, running>>

\* the RelatedSymbol the tool builds from a row of the store's answer
RelatedSymbol(rel) ==
    [name |-> IF rel.direction = "outgoing" THEN rel.source_name ELSE rel.target_name,
     file |-> IF rel.direction = "outgoing" THEN rel.source_file ELSE rel.target_file,
     line |-> IF rel.direction = "outgoing" THEN rel.source_line ELSE rel.target_line]

\* the relationships of each symbol of found, each row beside the symbol asked about
RECURSIVE RelationshipsOfEach(_, _, _, _, _)
RelationshipsOfEach(st, found, relationship_type, direction, project_id) ==
    IF found = << >> THEN << >>
    ELSE LET rels == get_symbol_relationships(st, Head(found).id, relationship_type,
                                              direction, project_id)
         IN  [k \in 1..Len(rels) |-> [symbol |-> Head(found), relationship |-> rels[k],
                                      related_symbol |-> RelatedSymbol(rels[k])]]
             \o RelationshipsOfEach(st, Tail(found), relationship_type, direction, project_id)

\* the tool get_symbol_relationships: the symbols are found with search_by_name
GetSymbolRelationships(symbol_name, relationship_type, direction, project_id) ==
    LET st == Store(symbols, relationships, embeddings)
        found == search_by_name(st, symbol_name, project_id)
    IN  /\ result' = [Result("symbol_relationships", project_id, FALSE, None, {}, 0, 0, NoCommit, NoCommit)
                         EXCEPT !.args = [NoArgs EXCEPT !.name = symbol_name,
                                                        !.direction = direction,
                                                        !.filtered = relationship_type # None],
                                !.rows = RelationshipsOfEach(st, found, relationship_type,
                                                             direction, project_id)]
        /\ UNCHANGED <<fs, is_repo, commits, head, projects, symbols, relationships, embeddings, edits, running>>

\* the numbers of results asked for
TopKs == {-1, 1, 2}

\* the tool search_symbol_semantic: rows become Symbol values with
\* score = result.get("score", 0.0); any exception gives success = False
SearchSemantic(backend, top_k, project_id) ==
    \E ranked \in (IF backend = "vec0" THEN Orders({e.id : e \in embeddings}) ELSE {<< >>}) :
      LET results == search_semantic(Store(symbols, relationships, embeddings),
                                     backend, ranked, top_k, project_id)
          ok == \A k \in 1..Len(results) : results[k].symbol.symbol_type \in SymbolType
          r0 == Result("search_semantic", project_id, FALSE, None, {}, 0, 0, NoCommit, NoCommit)
      IN  /\ result' = [r0 EXCEPT !.success = ok,
                                  !.args = [NoArgs EXCEPT !.backend = backend, !.top_k = top_k,
                                                          !.filtered = project_id # None],
                                  !.rows = IF ok
                                           THEN [k \in 1..Len(results) |->
                                                   [symbol |-> results[k].symbol, score |-> 0]]
                                           ELSE << >>]
          /\ UNCHANGED <<fs, is_repo, commits, head, projects, symbols, relationships, embeddings, edits, running>>

\* code_parser.parse_file(f) under an installation env; the answer is kept in result
ParseFile(f, env) ==
    /\ result' = [Result("parse", None, FALSE, None, {}, 0, 0, NoCommit, NoCommit)
                     EXCEPT !.args = [NoArgs EXCEPT !.file = f, !.env = env],
                            !.rows = parse_file_in(env, f, fs[f])]
    /\ UNCHANGED <<fs, is_repo, commits, head, projects, symbols, relationships, embeddings, edits, running>>

QueryNext ==
    \/ \E f \in Files, c \in 0..6 : WriteFile(f, c)
    \/ \E p \in ProjectIds : IndexCodebase(p)
    \/ \E f \in Files, env \in ParserEnvs : ParseFile(f, env)
    \/ \E backend \in Backends \ {"vec0"}, top_k \in TopKs, p \in {QueryProject, None} :
          SearchSemantic(backend, top_k, p)
    \/ \E name \in {"foo", "bar"}, p \in {QueryProject, None} : FindCallers(name, p)
    \/ \E name \in {"foo", "bar"}, type \in {None, "calls"}, direction \in Directions :
          GetSymbolRelationships(name, type, direction, QueryProject)

QuerySpec == Init /\ [][QueryNext]_vars

\* history is rewritten: HEAD's commit is replaced by a new commit of the same
\* tree (git commit --amend) and the replaced commit is pruned
RewriteHistory ==
    /\ is_repo
    /\ head # NoCommit
    /\ Len(commits) < MaxCommits
    /\ commits' = Append([commits EXCEPT ![head] = Pruned], commits[head])
    /\ head' = Len(commits) + 1
    /\ result' = EnvResult
    /\ UNCHANGED <<fs, is_repo, projects, symbols, relationships, embeddings, edits, running>>

RewriteNext ==
    \/ \E f \in Files, c \in 0..4 : WriteFile(f, c)
    \/ GitInit
    \/ GitCommit
    \/ RewriteHistory
    \/ IndexCodebase(GitProject)

RewriteSpec == Init /\ [][RewriteNext]_vars

\* the relationship inferencer run on the symbols extracted from f
ExtractRelationships(f) ==
    /\ fs[f] # 0
    /\ detect_language(f) # None
    /\ result' = [Result("extract_relationships", None, FALSE, None, {}, 0, 0, NoCommit, NoCommit)
                     EXCEPT !.args = [NoArgs EXCEPT !.file = f],
                            !.rows = _extract_relationships(
                                         Content(fs[f]).lines, detect_language(f),
                                         _extract_symbols(Content(fs[f]), detect_language(f), f))]
    /\ UNCHANGED <<fs, is_repo, commits, head, projects, symbols, relationships, embeddings, edits, running>>

\* the parser classes a capture is mapped by, the capture names and the
\* languages they are asked about
ParserClasses == {"BaseParser", "PythonParser", "ComprehensiveParser"}
CaptureNames == {"function", "class", "variable", "name", "definition.function", "unknown_symbol_type"}
Languages == {"python", "elm"}

\* parser._get_symbol_type(capture_name, language) on an instance of class self
GetSymbolType(self, capture_name, language) ==
    /\ result' = [Result("get_symbol_type", None, FALSE, None, {}, 0, 0, NoCommit, NoCommit)
                     EXCEPT !.args = [NoArgs EXCEPT !.parser = self,
                                                    !.capture_name = capture_name,
                                                    !.language = language],
                            !.rows = << CASE self = "BaseParser" ->
                                                BaseParser_get_symbol_type(capture_name, language)
                                          [] self = "PythonParser" ->
                                                PythonParser_get_symbol_type(capture_name, language)
                                          [] OTHER -> _get_symbol_type(capture_name, language) >>]
    /\ UNCHANGED <<fs, is_repo, commits, head, projects, symbols, relationships, embeddings, edits, running>>

\* parser._extract_symbol_info(node, capture_name, lines, language, 'test.py')
\* for a one-line node whose text is word
ExtractSymbolInfo(self, capture_name, word, language) ==
    /\ self # "PythonParser"
    /\ result' = [Result("extract_symbol_info", None, FALSE, None, {}, 0, 0, NoCommit, NoCommit)
                     EXCEPT !.args = [NoArgs EXCEPT !.parser = self,
                                                    !.capture_name = capture_name,
                                                    !.name = word,
                                                    !.language = language],
                            !.rows = IF self = "BaseParser"
                                     THEN BaseParser_extract_symbol_info(
                                              Capture(capture_name, word, 1, 1, word), language, "a.py")
                                     ELSE _extract_symbol_info(
                                              Capture(capture_name, word, 1, 1, word), language, "a.py")]
    /\ UNCHANGED <<fs, is_repo, commits, head, projects, symbols, relationships, embeddings, edits, running>>

\* the directories a file is parsed in
ParseTrees == {t \in Trees : \A f \in Files : t[f] \in FileContents(f) \cup {InitialTree[f]}}

ParseInit ==
    /\ fs \in ParseTrees
    /\ is_repo = FALSE
    /\ commits = << >>
    /\ head = 0
    /\ projects = {}
    /\ symbols = {}
    /\ relationships = {}
    /\ embeddings = {}
    /\ edits = 0
    /\ result = EnvResult
    /\ running = [i \in Operations |-> IdleOperation]

ParseNext ==
    \/ \E f \in Files, env \in ParserEnvs : ParseFile(f, env)
    \/ \E f \in Files : ExtractRelationships(f)
    \/ \E self \in ParserClasses, capture_name \in CaptureNames, language \in Languages :
          GetSymbolType(self, capture_name, language)
    \/ \E self \in ParserClasses, capture_name \in CaptureNames, word \in {"", "foo"},
          language \in Languages :
          ExtractSymbolInfo(self, capture_name, word, language)

ParseSpec == ParseInit /\ [][ParseNext]_vars

\* several projects indexed, deleted and queried over one store
IsolationNext ==
    \/ \E c \in {0, 1, 2} : WriteFile("a.py", c)
    \/ \E p \in ProjectIds : IndexCodebase(p)
    \/ \E p \in ProjectIds : DeleteProject(p)
    \/ \E p \in ProjectIds : FindCallers("bar", p)
    \/ \E p \in ProjectIds : GetSymbolRelationships("bar", None, "both", p)

IsolationSpec == Init /\ [][IsolationNext]_vars

TypeOK ==
    /\ fs \in Trees
    /\ is_repo \in BOOLEAN
    /\ head \in 0..MaxCommits
    /\ \A r \in symbols : r.id \in 1..MaxSymbolId /\ r.project_id \in ProjectIds
    /\ \A r \in relationships : r.id \in 1..MaxRelationshipId


(***************************************************************************)
(* Properties.                                                             *)
(***************************************************************************)
SymbolIds(symbols_) == {r.id : r \in symbols_}

\* the step is an index operation on project p
IndexStep(p) == result'.op = "index" /\ result'.project_id = p /\ vars' # vars

\* C1: no two symbol rows share (project_id, language, name, file_path,
\* line_start), and no two share an id: inserting a symbol whose key exists
\* replaces the prior row.
C1_Uniqueness ==
    \A r1, r2 \in symbols :
        (\/ r1.id = r2.id
         \/ /\ r1.project_id = r2.project_id
            /\ r1.language = r2.language
            /\ r1.name = r2.name
            /\ r1.file_path = r2.file_path
            /\ r1.line_start = r2.line_start)
        => r1 = r2

\* an index operation stored two symbols of m.elm under one key and one row is left
C1_Witness ==
    /\ result.op = "index"
    /\ result.files_to_process = {"m.elm"}
    /\ result.total_symbols_added = 2
    /\ Cardinality(FileSymbols(symbols, "m.elm", result.project_id)) = 1

\* C2: when an index operation reprocesses a file whose content changed
\* since it was indexed, the file's symbol rows afterwards all carry the new
\* content's hash, and no relationship row with an endpoint among the old
\* rows and no embedding row of an old row remains.
C2_ReplaceLeavesNothing ==
    [][\A p \in ProjectIds, f \in Files :
         LET old == FileSymbols(symbols, f, p)
             oldIds == SymbolIds(old)
         IN  (/\ IndexStep(p)
              /\ f \in result'.files_to_process
              /\ old # {}
              /\ \A r \in old : r.file_hash # fs[f])
             => /\ \A r \in FileSymbols(symbols', f, p) : r.file_hash = fs[f]
                /\ \A r \in relationships \cap relationships' :
                      r.source_symbol_id \notin oldIds /\ r.target_symbol_id \notin oldIds
                /\ \A e \in embeddings \cap embeddings' :
                      e.id \in oldIds => e.id \in SymbolIds(symbols')]_vars

\* C3: after delete_project(P) the store holds no symbol row and no
\* relationship row of P, and no embedding row of a symbol P had.
C3_DeleteProjectLeavesNothing ==
    [][\A p \in ProjectIds :
         (result'.op = "delete_project" /\ result'.project_id = p /\ vars' # vars)
         => /\ ProjectSymbols(symbols', p) = {}
            /\ {r \in relationships' : r.project_id = p} = {}
            /\ \A e \in embeddings' :
                  e.id \notin SymbolIds(ProjectSymbols(symbols, p))]_vars

\* C4: every relationship row's source_symbol_id and target_symbol_id are
\* ids of symbol rows that exist.
C4_RelationshipsReferToSymbols ==
    \A r \in relationships :
        /\ r.source_symbol_id \in SymbolIds(symbols)
        /\ r.target_symbol_id \in SymbolIds(symbols)

\* C5: every embedding row is keyed by the id of a symbol row that exists.
C5_EmbeddingsReferToSymbols ==
    \A e \in embeddings : e.id \in SymbolIds(symbols)

\* C6: two index operations in succession on one project of a tree that is
\* not under version control, nothing edited in between: the second one
\* reports processed_files = 0.
C6_SecondIndexProcessesNothing ==
    [][\A p \in ProjectIds :
         (/\ result.op = "index" /\ result.project_id = p
          /\ ~result.is_git_repo
          /\ IndexStep(p) /\ ~result'.is_git_repo)
         => result'.processed_files = 0]_vars

\* nothing was ever edited, the project has rows from an earlier index
\* operation, and the index operation that just returned processed nothing
C6_Witness ==
    /\ result.op = "index"
    /\ ~result.is_git_repo
    /\ result.processed_files = 0
    /\ edits = 0
    /\ ProjectSymbols(symbols, result.project_id) # {}
    /\ \A f \in Files : \A r \in FileSymbols(symbols, f, result.project_id) :
          r.file_hash = fs[f]

\* C7: in a full scan, a file that has a symbol row of the project stamped
\* with the file's current content hash is not planned and its rows are
\* left as they were.
C7_FullScanSkipsCurrentFiles ==
    [][\A p \in ProjectIds, f \in Files :
         (/\ IndexStep(p)
          /\ result'.scan_mode = "full"
          /\ fs[f] # 0
          /\ \E r \in FileSymbols(symbols, f, p) : r.file_hash = get_file_hash(fs, f))
         => /\ f \notin result'.files_to_process
            /\ FileSymbols(symbols', f, p) = FileSymbols(symbols, f, p)]_vars

\* a full scan processed one file and skipped another whose rows are current
C7_Witness ==
    /\ result.op = "index"
    /\ result.scan_mode = "full"
    /\ result.processed_files = 1
    /\ \E f \in Files \ result.files_to_process :
          /\ fs[f] # 0
          /\ \E r \in FileSymbols(symbols, f, result.project_id) : r.file_hash = fs[f]

\* C8: an index operation takes the incremental path only if the tree is a
\* repository, the project has a recorded scan commit, and HEAD differs from
\* it; in every other case it takes the full-scan path.
C8_IncrementalOnlyIf ==
    [][\A p \in ProjectIds :
         IndexStep(p)
         => /\ result'.scan_mode \in {"incremental", "full"}
            /\ result'.scan_mode = "incremental"
               <=> /\ is_repo
                   /\ \E r \in projects : /\ r.project_id = p
                                          /\ r.last_commit_hash # NoCommit
                                          /\ r.last_commit_hash # head]_vars

\* an index operation took the incremental path
C8_Witness ==
    /\ result.op = "index"
    /\ result.scan_mode = "incremental"
    /\ result.last_commit_hash # NoCommit
    /\ result.current_commit_hash # result.last_commit_hash

\* files whose content differs between two commits
DiffFiles(c1, c2) == {f \in Files : commits[c1][f] # commits[c2][f]}

\* C9: the project's recorded scan commit is C1, HEAD is a later commit C2
\* and the tree is clean: the index operation processes only files that
\* differ between C1 and C2, leaves the rows of every other file alone, and
\* records C2 as the scan commit.
C9_IncrementalProcessesDiff ==
    [][\A p \in ProjectIds :
         LET c1 == LastCommitHash(projects, p)
         IN  (/\ IndexStep(p)
              /\ is_repo
              /\ c1 # NoCommit
              /\ head # c1
              /\ fs = HeadTree(commits, head))
             => /\ result'.files_to_process \subseteq DiffFiles(c1, head)
                /\ \A f \in Files \ DiffFiles(c1, head) :
                      FileSymbols(symbols', f, p) = FileSymbols(symbols, f, p)
                /\ LastCommitHash(projects', p) = head]_vars

\* an incremental index of a clean tree processed the changed file, left a
\* recognized unchanged file out, and recorded HEAD
C9_Witness ==
    /\ result.op = "index"
    /\ result.scan_mode = "incremental"
    /\ is_repo
    /\ fs = HeadTree(commits, head)
    /\ result.current_commit_hash = head
    /\ result.files_to_process = DiffFiles(result.last_commit_hash, head)
    /\ result.processed_files = 1
    /\ LastCommitHash(projects, result.project_id) = head
    /\ \E f \in Files \ result.files_to_process :
          FileSymbols(symbols, f, result.project_id) # {}

\* C10: force_full_rescan on a project with a recorded scan commit clears
\* the commit; the index operation that follows it, HEAD being the commit
\* that was recorded, takes the full-scan path and processes every present
\* file of a recognized language.
C10_ForcedRescanProcessesEveryFile ==
    [][\A p \in ProjectIds :
         /\ (/\ result'.op = "force_full_rescan" /\ result'.project_id = p
             /\ vars' # vars
             /\ LastCommitHash(projects, p) # NoCommit)
            => LastCommitHash(projects', p) = NoCommit
         /\ (/\ result.op = "force_full_rescan" /\ result.project_id = p
             /\ result.last_commit_hash # NoCommit
             /\ result.last_commit_hash = head
             /\ is_repo
             /\ IndexStep(p))
            => /\ result'.scan_mode = "full"
               /\ result'.files_to_process =
                     {f \in Files : fs[f] # 0 /\ detect_language(f) # None}]_vars

Range(seq) == {seq[i] : i \in 1..Len(seq)}

\* (name, line_start) of the symbols extraction yields for the file's content
ExtractedKeys(f) ==
    LET syms == parse_file(f, fs[f]) IN {<<syms[k].name, syms[k].line_start>> : k \in 1..Len(syms)}

\* after the step the project's rows of g are those of g's current content
ProcessedInStep(g, p) ==
    /\ {<<r.name, r.line_start>> : r \in FileSymbols(symbols', g, p)} = ExtractedKeys(g)
    /\ \A r \in FileSymbols(symbols', g, p) : r.file_hash = get_file_hash(fs, g)

\* C11 (as stated): a file-level failure of one planned file (store error in
\* its replace step, unreadable file, parser crash) is recorded in the error
\* list, every other planned file is still processed, and the operation
\* succeeds.
C11_FileFailureRecorded ==
    [][\A p \in ProjectIds : \A x \in result'.faults :
         (IndexStep(p) /\ x.kind \in {"delete", "parse", "batch"})
         => /\ x.file \in Range(result'.errors)
            /\ result'.success
            /\ \A g \in result'.files_to_process \ {x.file} : ProcessedInStep(g, p)]_vars

\* C11 (amended): an exception that reaches the file loop (store error in the
\* replace step, malformed symbol) is recorded in the error list; a read or
\* parse failure is absorbed by parse_file and is not recorded; in both
\* cases every other planned file is still processed and the operation
\* succeeds.
C11_FileFailureIsolated ==
    [][\A p \in ProjectIds : \A x \in result'.faults :
         (IndexStep(p) /\ x.kind \in {"delete", "parse", "batch"})
         => /\ x.kind \in {"delete", "batch"} => result'.errors = <<x.file>>
            /\ x.kind = "parse" => result'.errors = << >>
            /\ result'.success
            /\ \A g \in result'.files_to_process \ {x.file} : ProcessedInStep(g, p)]_vars

\* the replace step of one of two planned files raised; the other file was
\* processed and the failure is in the error list
C11_Witness ==
    /\ result.op = "index"
    /\ Cardinality(result.files_to_process) = 2
    /\ \E x \in result.faults : x.kind = "delete" /\ result.errors = <<x.file>>
    /\ result.processed_files = 1
    /\ result.success

\* the number of symbols extraction yields for the files
RECURSIVE SymbolsExtracted(_)
SymbolsExtracted(files) ==
    IF files = {} THEN 0
    ELSE LET g == CHOOSE y \in files : TRUE
         IN  Len(parse_file(g, fs[g])) + SymbolsExtracted(files \ {g})

FilesWithSymbols(files) == {g \in files : parse_file(g, fs[g]) # << >>}

\* the item named by x was left out of what the step wrote
ItemSkipped(x, p) ==
    LET syms == parse_file(x.file, fs[x.file])
        sym == syms[x.k]
        row == {r \in FileSymbols(symbols', x.file, p) :
                  r.name = sym.name /\ r.line_start = sym.line_start}
    IN  /\ x.kind = "symbol" =>
              {<<r.name, r.line_start>> : r \in FileSymbols(symbols', x.file, p)}
              = {<<syms[i].name, syms[i].line_start>> : i \in (1..Len(syms)) \ {x.k}}
        /\ x.kind = "embedding" =>
              /\ row # {}
              /\ \A e \in embeddings' \ embeddings : e.embedding # EmbeddingText(sym)
        /\ (/\ x.kind = "relationship"
            \* no other pending relationship of the file stands for the same edge
            /\ \A k \in 1..Len(syms) : \A j \in 1..Len(syms[k].relationships) :
                  (syms[k].name = sym.name /\ syms[k].relationships[j] = sym.relationships[x.j])
                  => (k = x.k /\ j = x.j)) =>
              \A r \in relationships' \ relationships, s \in row, t \in symbols' :
                  (r.source_symbol_id = s.id /\ r.target_symbol_id = t.id
                   /\ r.relationship_type = sym.relationships[x.j].type)
                  => ~IsSubstring(NameChars(sym.relationships[x.j].target), NameChars(t.name))

\* C12 (as stated): a failure below file granularity is skipped, is added to
\* the error list, and the operation returns success with the counts of
\* what succeeded.
C12_ItemFailureTallied ==
    [][\A p \in ProjectIds : \A x \in result'.faults :
         (IndexStep(p) /\ x.kind \in {"symbol", "embedding", "relationship"})
         => /\ ItemSkipped(x, p)
            /\ result'.errors # << >>
            /\ result'.success
            /\ result'.processed_files = Cardinality(FilesWithSymbols(result'.files_to_process))
            /\ result'.total_symbols_added =
                  SymbolsExtracted(result'.files_to_process)
                  - (IF x.kind = "relationship" THEN 0 ELSE 1)]_vars

\* C12 (amended): a failure below file granularity is skipped and only
\* logged: the error list stays empty, and the operation returns success
\* with the counts of what succeeded.
C12_ItemFailureSkipped ==
    [][\A p \in ProjectIds : \A x \in result'.faults :
         (IndexStep(p) /\ x.kind \in {"symbol", "embedding", "relationship"})
         => /\ ItemSkipped(x, p)
            /\ result'.errors = << >>
            /\ result'.success
            /\ result'.processed_files = Cardinality(FilesWithSymbols(result'.files_to_process))
            /\ result'.total_symbols_added =
                  SymbolsExtracted(result'.files_to_process)
                  - (IF x.kind = "relationship" THEN 0 ELSE 1)]_vars

\* persisting one of the two symbols of a.py failed: one symbol is counted,
\* the file is counted, no error is listed
C12_Witness ==
    /\ result.op = "index"
    /\ result.files_to_process = {"a.py"}
    /\ \E x \in result.faults : x.kind = "symbol"
    /\ result.total_symbols_added = 1
    /\ result.processed_files = 1
    /\ result.errors = << >>
    /\ result.success

\* C13: after an index operation, every planned file has either the rows it
\* had before the operation or the complete rows of its current content,
\* also when a call made for that file fails part-way.
C13_FileReplaceAllOrNothing ==
    [][\A p \in ProjectIds : \A f \in result'.files_to_process :
         IndexStep(p)
         => \/ FileSymbols(symbols', f, p) = FileSymbols(symbols, f, p)
            \/ ProcessedInStep(f, p)]_vars

\* ---- C14 ----

AllDone == \A i \in Operations : running[i].pc = "done"

AnyOverlapped == \E i \in Operations : running[i].overlapped

\* an embedding row whose symbol id no symbol row has
OrphanEmbedding == \E e \in embeddings : e.id \notin SymbolIds(symbols)

\* C14: two index operations on the same project are not safe against each
\* other. Whenever the two run one after the other (no call of one falls
\* between the first and the last call of the other), every embedding row
\* refers to an existing symbol once both have returned; C14_Witness is the
\* interleaving of their delete and insert calls on the same file that ends
\* with an embedding row whose symbol id no longer exists.
C14_SequentialRunsLeaveNoOrphan ==
    (AllDone /\ ~AnyOverlapped) => ~OrphanEmbedding

C14_Witness == AllDone /\ AnyOverlapped /\ OrphanEmbedding

\* ---- C16 ----

\* the tree of scenario A: the only source file holds def foo / def bar calling foo
ScenarioATree == fs["a.py"] = 1 /\ fs["m.elm"] = 0

\* the calls edges of the store as (source name, target name) pairs
CallsEdges(symbols_, relationships_) ==
    {<<s.name, t.name>> : <<s, t>> \in
        {<<s, t>> \in symbols_ \X symbols_ :
            \E r \in relationships_ : /\ r.relationship_type = "calls"
                                      /\ r.source_symbol_id = s.id
                                      /\ r.target_symbol_id = t.id}}

\* C16: indexing a fresh project whose only source file holds the two lines
\* def foo(): pass and def bar(): foo() leaves exactly the two function
\* symbols foo and bar and exactly one calls relationship, from bar to foo.
C16_ScenarioA ==
    [][(/\ IndexStep("p1")
        /\ ScenarioATree
        /\ symbols = {} /\ relationships = {} /\ embeddings = {})
       => /\ {<<r.name, r.symbol_type>> : r \in symbols'} = {<<"foo", "function">>, <<"bar", "function">>}
          /\ Cardinality(symbols') = 2
          /\ Cardinality({r \in relationships' : r.relationship_type = "calls"}) = 1
          /\ CallsEdges(symbols', relationships') = {<<"bar", "foo">>}]_vars

\* ---- C15 ----

\* the target texts the extractor recorded for the symbol that row s stands for
RecordedTargets(s, type) ==
    LET syms == parse_file(s.file_path, fs[s.file_path])
    IN  {syms[k].relationships[j].target :
            <<k, j>> \in {<<k, j>> \in (1..Len(syms)) \X (1..3) :
                            /\ syms[k].name = s.name
                            /\ j <= Len(syms[k].relationships)
                            /\ syms[k].relationships[j].type = type}}

\* C15: a pending relationship of a processed file is resolved to a symbol of
\* the same project whose name equals the recorded target text; an edge is
\* inserted if and only if such a symbol exists, otherwise it is dropped.
\* Stated for the first index operation of a project on an empty store; the
\* "if" half for targets declared in the file itself, which are stored before
\* the file's relationships are resolved.
C15_TargetResolvedByEqualName ==
    [][(IndexStep(QueryProject) /\ symbols = {} /\ relationships = {})
       => /\ \A r \in relationships' :
                \E s, t \in ProjectSymbols(symbols', QueryProject) :
                    /\ s.id = r.source_symbol_id
                    /\ t.id = r.target_symbol_id
                    /\ t.name \in RecordedTargets(s, r.relationship_type)
          /\ \A s \in ProjectSymbols(symbols', QueryProject) :
                \A n \in RecordedTargets(s, "calls") :
                    (\E t \in FileSymbols(symbols', s.file_path, QueryProject) : t.name = n)
                    => \E r \in relationships', t \in symbols' :
                          /\ r.source_symbol_id = s.id
                          /\ r.target_symbol_id = t.id
                          /\ r.relationship_type = "calls"
                          /\ t.name = n]_vars

\* ---- C17 ----

\* what the line patterns of the file's language find in content c
LinePatternSymbols(file_path, c) ==
    IF _get_language_parser(detect_language(file_path)) = "kotlin"
    THEN KotlinParser_extract_symbols_regex(Content(c).lines, 1, file_path, detect_language(file_path))
    ELSE IF _get_language_parser(detect_language(file_path)) # None
    THEN extract_symbols_regex(Content(c).lines, file_path, detect_language(file_path))
    ELSE _extract_generic_symbols(Content(c).lines, file_path, detect_language(file_path))

SymbolKeys(syms) == {<<syms[k].name, syms[k].symbol_type, syms[k].line_start>> : k \in 1..Len(syms)}

\* C17: when the grammar or the capture query of a readable file's language
\* cannot be loaded, or the query yields no capture, parse_file returns what
\* the line-pattern extractor of the language finds in the file.
C17_FallsBackToLinePatterns ==
    LET f == result.args.file
    IN  (/\ result.op = "parse"
         /\ fs[f] # 0
         /\ detect_language(f) # None
         /\ \/ ~result.args.env.parser
            \/ ~result.args.env.query
            \/ Content(fs[f]).captures = << >>)
        => SymbolKeys(result.rows) = SymbolKeys(LinePatternSymbols(f, fs[f]))

\* ---- C18 ----

BackendUnavailable == result.op = "search_semantic" /\ result.args.backend \in {"absent", "error"}

\* the original statement: at most top_k rows for every top_k
C18_FallbackAtMostTopK ==
    BackendUnavailable => Len(result.rows) <= result.args.top_k

\* C18: semantic search with the vector backend unavailable (no vector
\* index, or the vector query fails) never raises: it succeeds and, for a
\* top_k that is not negative, returns at most top_k symbol rows, each with
\* the placeholder score zero, all of the requested project when a project
\* filter is given.
C18_FallbackBounded ==
    BackendUnavailable =>
        /\ result.success
        /\ result.args.top_k >= 0 => Len(result.rows) <= result.args.top_k
        /\ \A k \in 1..Len(result.rows) :
              /\ result.rows[k].score = 0
              /\ result.rows[k].symbol \in symbols
              /\ result.args.filtered => result.rows[k].symbol.project_id = result.project_id

\* the limit cut rows off and the filter left rows of another project out
C18_Witness ==
    /\ BackendUnavailable
    /\ result.args.filtered
    /\ result.args.top_k >= 0
    /\ Len(result.rows) = result.args.top_k
    /\ Cardinality(ProjectSymbols(symbols, result.project_id)) > result.args.top_k
    /\ \E r \in symbols : r.project_id # result.project_id

\* ---- C19 ----

\* the relationships of type calls whose target is a function or method named
\* name (of project p, when given)
CallsInto(name, p) ==
    {r \in relationships :
        /\ r.relationship_type = "calls"
        /\ p # None => r.project_id = p
        /\ \E t \in symbols : /\ t.id = r.target_symbol_id
                              /\ t.name = name
                              /\ t.symbol_type \in {"function", "method"}
                              /\ (p # None => t.project_id = p)}

\* rows holds one result per edge of edges, ordered by caller file, then line
AnswersEdges(rows, edges) ==
    /\ Len(rows) = Cardinality(edges)
    /\ {rows[k].caller_id : k \in 1..Len(rows)} = {r.source_symbol_id : r \in edges}
    /\ \A k \in 1..Len(rows) : rows[k].function_name = result.args.name
    /\ \A k \in 1..(Len(rows) - 1) :
          \/ LexLess(PathChars(rows[k].caller_file), PathChars(rows[k + 1].caller_file))
          \/ /\ rows[k].caller_file = rows[k + 1].caller_file
             /\ rows[k].caller_line <= rows[k + 1].caller_line

CallersProject == IF result.args.filtered THEN result.project_id ELSE None

C20_DirectionTags ==
    result.op = "symbol_relationships" =>
        \A k \in 1..Len(result.rows) :
            LET row == result.rows[k]
            IN  /\ row.relationship.direction = "outgoing"
                       <=> row.relationship.source_id = row.symbol.id
                /\ row.relationship.direction = "incoming"
                       <=> row.relationship.target_id = row.symbol.id
                /\ result.args.direction = "incoming" => row.relationship.direction = "incoming"
                /\ result.args.direction = "outgoing" => row.relationship.direction = "outgoing"

\* ---- C21 ----

\* the tree holds a file of a recognized language with a declaration in it
HasDeclaration(tree) ==
    \E f \in Files :
        /\ tree[f] # 0
        /\ detect_language(f) # None
        /\ \/ Content(tree[f]).captures # << >>
           \/ \E i \in 1..Len(Content(tree[f]).lines) : Content(tree[f]).lines[i].decl # "none"

\* nothing of project p is stored
NotIndexedBefore(p) == get_project_info(projects, p) = {} /\ ProjectSymbols(symbols, p) = {}

\* C21: index_codebase on a directory holding at least one file of a recognized
\* language with at least one declaration, under a project_id not indexed
\* before, returns a result that echoes the project_id and reports
\* processed_files > 0 and total_symbols_added > 0.
C21_FirstIndexReportsWork ==
    [][\A p \in ProjectIds :
          (IndexStep(p) /\ NotIndexedBefore(p) /\ HasDeclaration(fs))
          => /\ result'.project_id = p
             /\ result'.processed_files > 0
             /\ result'.total_symbols_added > 0]_vars

\* ---- C22 ----

\* file f of the tree yields symbols and no row of project p carries its current hash
Stale(symbols_, tree, f, p) ==
    /\ tree[f] # 0
    /\ parse_file(f, tree[f]) # << >>
    /\ ~\E r \in symbols_ : /\ r.project_id = p
                            /\ r.file_path = f
                            /\ r.file_hash = get_file_hash(tree, f)

\* C22: after an index operation on a project returns with an empty error
\* list, no file of the tree is stale: every file whose extraction yields at
\* least one symbol has stored symbol rows stamped with its current content
\* hash, whichever scan path the operation took.
C22_NoStaleFileAfterIndex ==
    [][\A p \in ProjectIds :
          (IndexStep(p) /\ result'.errors = << >>)
          => \A f \in Files : ~Stale(symbols', fs, f, p)]_vars

\* ---- C23 ----

\* C23: after an index operation completes, the store holds no symbol row of
\* the project for a file that no longer exists in the tree.
C23_NoRowsOfDeletedFiles ==
    [][\A p \in ProjectIds :
          IndexStep(p) => \A r \in ProjectSymbols(symbols', p) : fs[r.file_path] # 0]_vars

\* ---- C24 ----

\* the symbol row with this id belongs to project p
InProject(id, p) == \E r \in symbols : r.id = id /\ r.project_id = p

\* C24: find_callers and symbol_relationships called with project P return
\* only edges whose source and target symbols both belong to project P, also
\* after symbol ids have been deleted and reassigned.
C24_QueriesStayInProject ==
    /\ result.op = "find_callers" =>
          \A k \in 1..Len(result.rows) : InProject(result.rows[k].caller_id, result.project_id)
    /\ result.op = "symbol_relationships" =>
          \A k \in 1..Len(result.rows) :
              /\ InProject(result.rows[k].relationship.source_id, result.project_id)
              /\ InProject(result.rows[k].relationship.target_id, result.project_id)

\* the call tokens of line i of file f that the inferencer keeps
CallTokens(tree, f, i) ==
    LET tokens == Content(tree[f]).lines[i].tokens
        skip == IF _get_language_parser(detect_language(f)) # None
                THEN PythonSkipKeywords ELSE GenericSkipKeywords
    IN  {tokens[k] : k \in 1..Len(tokens)} \ skip

\* symbol s holds, inside its line range, a reference that resolves to symbol t
ContainsReference(tree, s, t) ==
    \E i \in 1..Len(Content(tree[s.file_path]).lines) :
        /\ s.line_start <= i /\ i <= s.line_end
        /\ \/ \E tok \in CallTokens(tree, s.file_path, i) :
                  IsSubstring(NameChars(tok), NameChars(t.name))
           \/ /\ Content(tree[s.file_path]).lines[i].parent # None
              /\ IsSubstring(NameChars(Content(tree[s.file_path]).lines[i].parent), NameChars(t.name))

\* C25: the source of every relationship stored while a file is processed is
\* the symbol whose line range contained the reference, also when the file
\* declares two symbols of the same name: every relationship row written by an
\* index operation has a source symbol whose line range holds a reference
\* that resolves to the row's target.
C25_SourceContainsReference ==
    [][\A p \in ProjectIds :
         IndexStep(p) =>
           \A r \in relationships' \ relationships :
             \A s \in symbols', t \in symbols' :
               (s.id = r.source_symbol_id /\ t.id = r.target_symbol_id)
                 => ContainsReference(fs, s, t)]_vars

\* the symbols the inferencer was given, and the lines it read
InferredSymbols == _extract_symbols(Content(fs[result.args.file]), detect_language(result.args.file), result.args.file)

InferredLines == Content(fs[result.args.file]).lines

\* symbol k's range holds line i
HoldsLine(k, i) == InferredSymbols[k].line_start <= i /\ i <= InferredSymbols[k].line_end

\* how often tok appears among the tokens of line i
Occurrences(i, tok) == Cardinality({k \in 1..Len(InferredLines[i].tokens) : InferredLines[i].tokens[k] = tok})

\* the inferred calls of tok on line i
CallsAt(i, tok) ==
    {k \in 1..Len(result.rows) :
        result.rows[k].type = "calls" /\ result.rows[k].line = i /\ result.rows[k].target = tok}

LineBasedInference ==
    /\ result.op = "extract_relationships"
    /\ _get_language_parser(detect_language(result.args.file)) # "kotlin"

\* C26: during call inference every call token (an identifier followed by an
\* opening parenthesis, not on the stoplist) found on a line is attributed to
\* exactly one symbol, the first symbol in extraction order whose range
\* [line_start, line_end] holds the line, and to no symbol when no range
\* holds the line.
C26_CallAttributedToFirstContaining ==
    LineBasedInference =>
        \A i \in 1..Len(InferredLines) :
            \A tok \in CallTokens(fs, result.args.file, i) :
                IF \E k \in 1..Len(InferredSymbols) : HoldsLine(k, i)
                THEN /\ Cardinality(CallsAt(i, tok)) = Occurrences(i, tok)
                     /\ \E k \in 1..Len(InferredSymbols) :
                            /\ HoldsLine(k, i)
                            /\ \A m \in 1..(k - 1) : ~HoldsLine(m, i)
                            /\ \A c \in CallsAt(i, tok) :
                                   result.rows[c].owner = InferredSymbols[k].name
                ELSE CallsAt(i, tok) = {}

\* a call found on a line that two differently named symbols hold, and a call
\* found on a line that no symbol holds
C26_Witness ==
    /\ LineBasedInference
    /\ \E i \in 1..Len(InferredLines) :
          /\ CallTokens(fs, result.args.file, i) # {}
          /\ \E k \in 1..Len(InferredSymbols), m \in 1..Len(InferredSymbols) :
                /\ HoldsLine(k, i) /\ HoldsLine(m, i)
                /\ InferredSymbols[k].name # InferredSymbols[m].name
          /\ \E c \in 1..Len(result.rows) : result.rows[c].line = i

\* the endpoint of the edge that is not the one the direction tag names
OtherEndpoint(rel) ==
    [name |-> IF rel.direction = "outgoing" THEN rel.target_name ELSE rel.source_name,
     file |-> IF rel.direction = "outgoing" THEN rel.target_file ELSE rel.source_file,
     line |-> IF rel.direction = "outgoing" THEN rel.target_line ELSE rel.source_line]

\* C27: for every relationship the get_symbol_relationships tool returns for a
\* matched symbol, the reported related_symbol is the other endpoint of the
\* edge: the target of an edge tagged outgoing, the source of an edge tagged
\* incoming.
C27_RelatedIsOtherEndpoint ==
    result.op = "symbol_relationships" =>
        \A k \in 1..Len(result.rows) :
            result.rows[k].related_symbol = OtherEndpoint(result.rows[k].relationship)

\* the files of the tree with a recognized language
RecognizedFiles(tree) == {f \in Files : tree[f] # 0 /\ detect_language(f) # None}

\* C28: when the incremental path is taken but the recorded scan commit cannot
\* be resolved in the repository (history was rewritten), the operation scans
\* all files: every file of the tree with a recognized language is in the set
\* to process.
C28_UnresolvedCommitScansAll ==
    [][\A p \in ProjectIds :
         (/\ IndexStep(p)
          /\ result'.scan_mode = "incremental"
          /\ ~Resolves(commits, result'.last_commit_hash))
            => RecognizedFiles(fs) \subseteq result'.files_to_process]_vars

\* a capture name that no table maps and that is no definition.X
Unmapped(capture_name) == GenericSymbolType(capture_name) = "unknown"

AsksBaseParser(op) == result.op = op /\ result.args.parser = "BaseParser"

\* C29: a capture whose name is neither a known capture type nor otherwise
\* mapped yields no symbol type (None) from the base parser, and
\* _extract_symbol_info returns no symbol for it, whereas a capture named in
\* the table (class) yields a symbol of the mapped type.
C29_UnmappedCaptureFiltered ==
    /\ (AsksBaseParser("get_symbol_type") /\ Unmapped(result.args.capture_name))
          => result.rows = << None >>
    /\ (AsksBaseParser("extract_symbol_info") /\ Unmapped(result.args.capture_name))
          => result.rows = << >>
    /\ (AsksBaseParser("extract_symbol_info") /\ result.args.capture_name = "class"
           /\ result.args.name # "")
          => (Len(result.rows) = 1 /\ result.rows[1].symbol_type = "class")

AsksRegistered(op) ==
    /\ result.op = op
    /\ result.args.parser = "ComprehensiveParser"
    /\ _get_language_parser(result.args.language) # None

\* C30: for a language with a registered language-specific parser (python) the
\* comprehensive parser's capture-to-type lookup returns the mapped type for a
\* known capture without failing (function, class and variable map to
\* themselves), so that captures of such a language produce symbols through
\* _extract_symbol_info.
C30_RegisteredLookupReturnsType ==
    /\ (AsksRegistered("get_symbol_type") /\ result.args.capture_name \in {"function", "class", "variable"})
          => result.rows = << result.args.capture_name >>
    /\ (AsksRegistered("extract_symbol_info") /\ result.args.name # ""
           /\ result.args.capture_name \in {"function", "class", "variable"})
          => (Len(result.rows) = 1 /\ result.rows[1].symbol_type = result.args.capture_name)

====
